---- MODULE Spec2Model ----
(***************************************************************************)
(* State engine of the node (package state, ChainStateDB): the in-memory   *)
(* account map, the trie root, the latest-block pointer and the log of     *)
(* per-block state deltas, with Apply and Rollback.                        *)
(*                                                                         *)
(* Go pointers to types.State are modelled by a heap: a pointer is an      *)
(* index into the sequence `heap`, 0 is nil.  Two places that hold the     *)
(* same index alias the same object, as they do in the program.            *)
(***************************************************************************)
EXTENDS Integers, Sequences, FiniteSets, TLC

\* ------------------------------------------------------------------ bounds
MaxAccountID == 2
MaxBalance == 1
MaxHeight == 2
TrieHeight == 2
MaxFaults == 1

\* ------------------------------------------------------------ basic values
None == <<>>
Some(x) == <<x>>

Nil == 0

emptyBlockID == 0
emptyAccountID == 0

AccountIDs == 0..MaxAccountID
\* ids a caller derives with types.ToAccountID: never the reserved zero value
CallerAccountIDs == AccountIDs \ {emptyAccountID}

MaxBlockID == MaxHeight + 1
BlockIDs == 1..MaxBlockID
GenesisHash == 1

StateVals == [Balance : 0..MaxBalance]
NewState == [Balance |-> 0]
IsEmpty(st) == st.Balance = 0

\* types.State.GetHash: a collision-free digest of the record
Hash(st) == <<st.Balance>>
\* hash of a possibly-nil state pointer, in value form (None is nil)
GetHash(opt) == IF opt = None THEN Hash(NewState) ELSE Hash(opt[1])

SetMin(S) == CHOOSE x \in S : \A y \in S : x <= y

\* -------------------------------------------------------------------- trie
TrieKeys == 0..(2^TrieHeight - 1)
DefaultLeaf == <<>>
EmptyTrie == [k \in TrieKeys |-> DefaultLeaf]

bitIsSet(key, height) == (key \div (2^(height - 1))) % 2 = 1

\* index of the first key whose bit at this height is set (Len+1 if none)
splitKeys(keys, height) ==
    LET hit == {i \in 1..Len(keys) : bitIsSet(keys[i], height)}
    IN  IF hit = {} THEN Len(keys) + 1 ELSE SetMin(hit)

RECURSIVE TrieUpdateAt(_, _, _, _, _)
TrieUpdateAt(root, keys, vals, height, base) ==
    IF Len(keys) = 0 THEN root
    ELSE IF height = 0 THEN [root EXCEPT ![base] = vals[1]]
    ELSE LET s == splitKeys(keys, height)
             n == Len(keys)
             left == TrieUpdateAt(root, SubSeq(keys, 1, s - 1),
                                  SubSeq(vals, 1, s - 1), height - 1, base)
         IN  TrieUpdateAt(left, SubSeq(keys, s, n), SubSeq(vals, s, n),
                          height - 1, base + 2^(height - 1))

TrieUpdate(root, keys, vals) == TrieUpdateAt(root, keys, vals, TrieHeight, 0)

\* ---------------------------------------------------------------- sorting
\* a less function that orders the ids downwards
Greater(a, b) == a > b

Less(a, b) == a < b

InsertSorted(s, x) ==
    LET k == Cardinality({i \in 1..Len(s) : ~Less(x, s[i])})
    IN  SubSeq(s, 1, k) \o <<x>> \o SubSeq(s, k + 1, Len(s))

RECURSIVE SortFrom(_, _)
SortFrom(done, rest) ==
    IF Len(rest) = 0 THEN done
    ELSE SortFrom(InsertSorted(done, rest[1]), Tail(rest))

SortSliceSkipped(accs) == accs

SortSlice(accs) == SortFrom(<<>>, accs)

\* Go ranges over a map in an unspecified order: perm is an order of all the
\* account ids, and the range over a map with key set S yields S in that order
Perms ==
    {f \in [1..Cardinality(CallerAccountIDs) -> CallerAccountIDs] :
        \A i, j \in DOMAIN f : f[i] = f[j] => i = j}

RangeOrder(perm, S) ==
    LET In(x) == x \in S
    IN  SelectSeq(perm, In)

\* ------------------------------------------------------------- block state
BlockInfoOf(b) ==
    [BlockNo |-> b.BlockNo, BlockHash |-> b.BlockHash, PrevHash |-> b.PrevHash]

\* NewStateEntry that stores the pre state as it is given
NewStateEntryKeepEmpty(h, state, undo) == [State |-> state, Undo |-> undo]

NewStateEntry(h, state, undo) ==
    [State |-> state,
     Undo |-> IF undo # Nil /\ IsEmpty(h[undo]) THEN Nil ELSE undo]

NewBlockState(blockNo, blockHash, prevHash) ==
    [BlockNo |-> blockNo, BlockHash |-> blockHash, PrevHash |-> prevHash,
     accounts |-> <<>>]

PutAccountReplacing(b, h, aid, state, change) ==
    [b EXCEPT !.accounts =
        (aid :> NewStateEntry(h, change, state)) @@ b.accounts]

PutAccount(b, h, aid, state, change) ==
    IF aid \in DOMAIN b.accounts
    THEN [b EXCEPT !.accounts[aid].State = change]
    ELSE [b EXCEPT !.accounts =
            (aid :> NewStateEntry(h, change, state)) @@ b.accounts]

\* value of the object behind a pointer: None for nil
ValOf(h, p) == IF p = Nil THEN None ELSE Some(h[p])

\* the serialized form of a block state: {BlockInfo, [(AccountID, post, pre)]}
Serialize(h, b) ==
    [BlockNo |-> b.BlockNo, BlockHash |-> b.BlockHash, PrevHash |-> b.PrevHash,
     accounts |-> [a \in DOMAIN b.accounts |->
                    [State |-> ValOf(h, b.accounts[a].State),
                     Undo |-> ValOf(h, b.accounts[a].Undo)]]]

\* ------------------------------------------------------------ the engine
\* An engine value st is [heap, accounts, root, latest, log]:
\*   accounts  sdb.accounts, AccountID -> pointer
\*   root      sdb.trie.Root, the leaves of the authenticated map
\*   latest    sdb.latest, None (nil) or Some(BlockInfo)
\*   log       the persisted block states, keyed by block hash

Alloc(h, v) == Append(h, v)

getAccountState(st, aid) ==
    IF aid = emptyAccountID THEN [st |-> st, ptr |-> Nil, err |-> TRUE]
    ELSE IF aid \in DOMAIN st.accounts
    THEN [st |-> st, ptr |-> st.accounts[aid], err |-> FALSE]
    ELSE LET h1 == Alloc(st.heap, NewState)
         IN  [st |-> [st EXCEPT !.heap = h1,
                                !.accounts = (aid :> Len(h1)) @@ st.accounts],
              ptr |-> Len(h1), err |-> FALSE]

getBlockAccount(st, b, aid) ==
    IF aid = emptyAccountID THEN [st |-> st, ptr |-> Nil, err |-> TRUE]
    ELSE IF aid \in DOMAIN b.accounts
    THEN [st |-> st, ptr |-> b.accounts[aid].State, err |-> FALSE]
    ELSE getAccountState(st, aid)

\* types.Clone(*state): the dereference faults on a nil pointer, otherwise a
\* new object with the same contents is returned
Clone(r) ==
    IF r.err THEN [st |-> r.st, ptr |-> Nil, res |-> "err"]
    ELSE IF r.ptr = Nil THEN [st |-> r.st, ptr |-> Nil, res |-> "panic"]
    ELSE LET h1 == Alloc(r.st.heap, r.st.heap[r.ptr])
         IN  [st |-> [r.st EXCEPT !.heap = h1], ptr |-> Len(h1), res |-> "ok"]

GetAccountStateClone(st, aid) == Clone(getAccountState(st, aid))

GetBlockAccountClone(st, b, aid) == Clone(getBlockAccount(st, b, aid))

\* updateTrie that takes the hash of the post state whatever the undo flag
updateTrieStateOnly(trieRoot, accs, undo, perm, updateFails) ==
    LET size == Cardinality(DOMAIN accs)
    IN  IF size <= 0
        THEN [root |-> trieRoot, err |-> FALSE, keys |-> <<>>, vals |-> <<>>,
              called |-> FALSE, committed |-> FALSE]
        ELSE LET keys == SortSlice(RangeOrder(perm, DOMAIN accs))
                 vals == [i \in 1..size |-> GetHash(accs[keys[i]].State)]
             IN  IF updateFails
                 THEN [root |-> trieRoot, err |-> TRUE, keys |-> keys, vals |-> vals,
                       called |-> TRUE, committed |-> FALSE]
                 ELSE [root |-> TrieUpdate(trieRoot, keys, vals), err |-> FALSE,
                       keys |-> keys, vals |-> vals,
                       called |-> TRUE, committed |-> FALSE]

\* accs: the block's entries in value form; perm: the order in which ranges
\* over maps yield keys; updateFails: trie.Update returns an error
\* called: trie.Update was called with keys and vals; committed: trie.Commit
\* was called (line 220 follows two returns and is never reached)
updateTrie(trieRoot, accs, undo, perm, updateFails) ==
    LET size == Cardinality(DOMAIN accs)
    IN  IF size <= 0
        THEN [root |-> trieRoot, err |-> FALSE, keys |-> <<>>, vals |-> <<>>,
              called |-> FALSE, committed |-> FALSE]
        ELSE LET keys == SortSlice(RangeOrder(perm, DOMAIN accs))
                 vals == [i \in 1..size |->
                            IF undo THEN GetHash(accs[keys[i]].Undo)
                            ELSE GetHash(accs[keys[i]].State)]
             IN  IF size > 0
                 THEN IF updateFails
                      THEN [root |-> trieRoot, err |-> TRUE,
                            keys |-> keys, vals |-> vals,
                            called |-> TRUE, committed |-> FALSE]
                      ELSE [root |-> TrieUpdate(trieRoot, keys, vals),
                            err |-> FALSE, keys |-> keys, vals |-> vals,
                            called |-> TRUE, committed |-> FALSE]
                 ELSE [root |-> trieRoot, err |-> FALSE,
                       keys |-> keys, vals |-> vals,
                       called |-> FALSE, committed |-> TRUE]

saveBlockState(st, data, fails) ==
    IF fails \/ data.BlockHash = emptyBlockID THEN st
    ELSE [st EXCEPT !.log = (data.BlockHash :> Serialize(st.heap, data)) @@ st.log]

ApplyRejectsHeightOnly(latestInfo, b) ==
    latestInfo.BlockNo + 1 # b.BlockNo

ApplyRejects(latestInfo, b) ==
    \/ latestInfo.BlockNo + 1 # b.BlockNo
    \/ latestInfo.BlockHash # b.PrevHash

ApplyAccountsUndo(acc, b) ==
    [k \in DOMAIN acc \cup DOMAIN b.accounts |->
        IF k \in DOMAIN b.accounts THEN b.accounts[k].Undo ELSE acc[k]]

ApplyAccounts(acc, b) ==
    [k \in DOMAIN acc \cup DOMAIN b.accounts |->
        IF k \in DOMAIN b.accounts THEN b.accounts[k].State ELSE acc[k]]

\* fail: which step of the KV store fails: "none", "save" (saveBlockState),
\* "trie" (trie.Update), "meta" (saveStateDB)
Apply(st, b, perm, fail) ==
    IF ApplyRejects(st.latest[1], b) THEN [st |-> st, err |-> "mismatch"]
    ELSE LET s1 == saveBlockState(st, b, fail = "save")
             s2 == [s1 EXCEPT !.accounts = ApplyAccounts(s1.accounts, b)]
             t == updateTrie(s2.root, Serialize(s2.heap, b).accounts, FALSE,
                             perm, fail = "trie")
         IN  IF t.err THEN [st |-> s2, err |-> "trie"]
             ELSE [st |-> [s2 EXCEPT !.root = t.root,
                                     !.latest = Some(BlockInfoOf(b))],
                   err |-> IF fail = "meta" THEN "meta" ELSE "nil"]

\* sdb.accounts[k] = v.Undo for every entry of a loaded block state; the
\* loaded Undo objects are new objects
RECURSIVE RevertAccounts(_, _, _, _)
RevertAccounts(h, acc, entries, todo) ==
    IF todo = {} THEN [heap |-> h, accounts |-> acc]
    ELSE LET k == SetMin(todo)
             u == entries[k].Undo
             h1 == IF u = None THEN h ELSE Alloc(h, u[1])
             p == IF u = None THEN Nil ELSE Len(h1)
         IN  RevertAccounts(h1, (k :> p) @@ acc, entries, todo \ {k})

\* The loop of Rollback.  iter counts the iterations; fail = [kind, at, perm]
\* makes the load ("load") or the trie revert ("trie") of iteration `at` fail.
\* undone lists the heights whose deltas were inverted, in order.
RECURSIVE RollbackLoop(_, _, _, _, _, _)
RollbackLoop(st, target, blockNo, iter, fail, undone) ==
    IF ~(target.BlockNo >= blockNo) THEN [st |-> st, err |-> "nil", undone |-> undone]
    ELSE IF target.BlockHash \notin DOMAIN st.log \/ (fail.kind = "load" /\ fail.at = iter)
    THEN [st |-> st, err |-> "load", undone |-> undone]
    ELSE LET b == st.log[target.BlockHash]
             s1 == [st EXCEPT !.latest = Some(BlockInfoOf(b))]
         IN  IF target.BlockNo = blockNo
             THEN [st |-> s1, err |-> "nil", undone |-> undone]
             ELSE LET r == RevertAccounts(s1.heap, s1.accounts, b.accounts,
                                          DOMAIN b.accounts)
                      s2 == [s1 EXCEPT !.heap = r.heap, !.accounts = r.accounts]
                      t == updateTrie(s2.root, b.accounts, TRUE,
                                      fail.perm,
                                      fail.kind = "trie" /\ fail.at = iter)
                  IN  IF t.err
                      THEN [st |-> s2, err |-> "trie", undone |-> undone]
                      ELSE RollbackLoop([s2 EXCEPT !.root = t.root],
                                        [BlockNo |-> b.BlockNo - 1,
                                         BlockHash |-> b.PrevHash],
                                        blockNo, iter + 1, fail,
                                        Append(undone, b.BlockNo))

Rollback(st, blockNo, fail) ==
    IF st.latest[1].BlockNo <= blockNo
    THEN [st |-> st, err |-> "invalid", undone |-> <<>>]
    ELSE LET r == RollbackLoop(st, [BlockNo |-> st.latest[1].BlockNo,
                                    BlockHash |-> st.latest[1].BlockHash],
                               blockNo, 1, fail, <<>>)
         IN  IF r.err = "nil" /\ fail.kind = "meta"
             THEN [r EXCEPT !.err = "meta"]
             ELSE r

GetHashRoot(st) == st.root

\* ------------------------------------------------- pointer normalisation
\* Objects no pointer reaches are dropped and the rest renumbered in a fixed
\* order of the places that hold pointers, so that two states that differ
\* only in the addresses of their objects are one state.
PtrSlots(acc, b, hd) ==
    [i \in 1..(3 * MaxAccountID + 1) |->
        IF i = 3 * MaxAccountID + 1 THEN hd
        ELSE LET aid == ((i - 1) \div 3) + 1
                 k == (i - 1) % 3
             IN  IF k = 0
                 THEN IF aid \in DOMAIN acc THEN acc[aid] ELSE Nil
                 ELSE IF b = None \/ aid \notin DOMAIN b[1].accounts THEN Nil
                 ELSE IF k = 1 THEN b[1].accounts[aid].State
                 ELSE b[1].accounts[aid].Undo]

NewAddr(slots, p) ==
    IF p = Nil THEN Nil
    ELSE LET first == SetMin({i \in DOMAIN slots : slots[i] = p})
         IN  Cardinality({slots[j] : j \in 1..first} \ {Nil})

Normalise(h, acc, b, hd) ==
    LET slots == PtrSlots(acc, b, hd)
        live == {slots[i] : i \in DOMAIN slots} \ {Nil}
    IN  [heap |-> [n \in 1..Cardinality(live) |->
                     h[CHOOSE p \in live : NewAddr(slots, p) = n]],
         accounts |-> [a \in DOMAIN acc |-> NewAddr(slots, acc[a])],
         bs |-> IF b = None THEN None
                ELSE Some([b[1] EXCEPT !.accounts =
                        [a \in DOMAIN b[1].accounts |->
                            [State |-> NewAddr(slots, b[1].accounts[a].State),
                             Undo |-> NewAddr(slots, b[1].accounts[a].Undo)]]]),
         held |-> NewAddr(slots, hd)]

\* ------------------------------------------------------------------ state
VARIABLES
    heap,       \* the objects of type types.State, by address
    accounts,   \* sdb.accounts
    root,       \* sdb.trie.Root
    latest,     \* sdb.latest
    log,        \* block states persisted in the KV store, by block hash
    bs,         \* the block state a caller is building: None or Some(bs)
    held,       \* the clone a caller keeps: the pointer returned to it
    last,       \* the last NewBlockState, Apply or Rollback and its result
    chain,      \* history: the block states applied on the current chain
    clean,      \* history: no Rollback has changed the engine and no step of
                \* the KV store has failed so far
    puts,       \* history: per account of bs, the first pre and the last post
                \* passed to PutAccount, and whether it was called again
    faults,     \* history: the number of KV store failures so far
    \* goroutines that call the engine concurrently
    pc,         \* per goroutine: the statement it is at
    lockedBy,   \* the goroutine that holds sdb's RWMutex, 0 for none
    job,        \* per goroutine: the argument of its call
    todo,       \* per goroutine in the accounts loop of Apply: keys left
    ret,        \* per goroutine: what its call returned
    obs,        \* per goroutine: what its last read returned
    \* the peer managers of the nodes
    remotePeers, \* per node: ps.remotePeers, peer id -> RemotePeer object
    peerCache,  \* per node: ps.peerCache, a slice of RemotePeer objects
    rpeers,     \* the RemotePeer objects ever created, by address
    streams,    \* the streams ever opened between nodes
    mgr,        \* per node: where its manager loop is
    jobs,       \* per node: the ids its reconnect manager has a job for
    loopLast,   \* the calls the last pass of a manager loop made on ps.rm
    bcast,      \* per node: the broadcast (NotifyNewBlock/NotifyNewTX) running
    sent,       \* history: the notices given to sendMessage
    \* the notice cache of one peer manager
    invCache,   \* ps.invCache: block hashes, least recently used first
    ntask,      \* per peer task: the HandleNewBlockNotice call it runs
    reqs,       \* history: the requests issued, in order
    \* one reconnect job
    runner,     \* the reconnectRunner: where it is, its trial count
    absent,     \* how many more times GetPeer will report the peer absent
    calls,      \* history: the calls the job made on the peer manager
    \* the backoff schedule
    sched,      \* a call of generateExpDuration: arguments, durations so far
    \* the block factory
    jobQueue,   \* bf.jobQueue: the jobs submitted and not yet received
    bpTimeoutC, \* bf.bpTimeoutC: the timeout signals in the channel
    quit,       \* bf.quit has been signalled
    ctl,        \* the controller task: where it is, its job
    wrk,        \* the worker task: where it is, its job, transactions left
    bfLog,      \* history: what became of each job
    \* one peer manager with its channels and the tasks that call it
    pmPeers,    \* ps.remotePeers: the ids of the registered peers
    pmPool,     \* ps.peerPool: the ids of the known addresses
    pmChan,     \* addPeerChannel's buffer; which channels Stop has closed
    pmLoop,     \* runManagePeers: where it is and what it is handling
    pmStop,     \* the task that calls Stop: where it is
    pmSend,     \* per calling task: the call it is in, or its fate
    pmLog       \* history: reconnect jobs, stopped peers, GoAway frames

engineVars == <<heap, accounts, root, latest, log>>

callerVars == <<bs, held, last, chain, clean, puts, faults>>

concVars == <<pc, lockedBy, job, todo, ret, obs>>

netVars ==
    <<remotePeers, peerCache, rpeers, streams, mgr, jobs, loopLast, bcast, sent>>

noticeVars == <<invCache, ntask, reqs>>

reconnVars == <<runner, absent, calls>>

p2pVars == <<netVars, noticeVars, reconnVars>>

schedVars == <<sched>>

bfVars == <<jobQueue, bpTimeoutC, quit, ctl, wrk, bfLog>>

pmVars == <<pmPeers, pmPool, pmChan, pmLoop, pmStop, pmSend, pmLog>>

moreVars == <<schedVars, bfVars, pmVars>>

vars == <<engineVars, callerVars, concVars, p2pVars, moreVars>>

\* no peer manager has been started
NetIdle ==
    /\ remotePeers = <<>>
    /\ peerCache = <<>>
    /\ rpeers = <<>>
    /\ streams = <<>>
    /\ mgr = <<>>
    /\ jobs = <<>>
    /\ loopLast = <<>>
    /\ bcast = <<>>
    /\ sent = {}

NoticeIdle ==
    /\ invCache = <<>>
    /\ ntask = <<>>
    /\ reqs = <<>>

ReconnIdle ==
    /\ runner = <<>>
    /\ absent = 0
    /\ calls = <<>>

SchedIdle == sched = <<>>

\* no block factory has been started
FactoryIdle ==
    /\ jobQueue = <<>>
    /\ bpTimeoutC = <<>>
    /\ quit = FALSE
    /\ ctl = <<>>
    /\ wrk = <<>>
    /\ bfLog = <<>>

\* no peer manager has been started
ManagerIdle ==
    /\ pmPeers = {}
    /\ pmPool = {}
    /\ pmChan = <<>>
    /\ pmLoop = <<>>
    /\ pmStop = ""
    /\ pmSend = <<>>
    /\ pmLog = <<>>

Engine ==
    [heap |-> heap, accounts |-> accounts, root |-> root, latest |-> latest,
     log |-> log]

\* op: the operation; res: its result; target: the height a Rollback was
\* asked for; undone: the heights whose deltas it inverted, in that order
Op(op, res) == [op |-> op, res |-> res, target |-> 0, undone |-> <<>>]

\* the next state: engine st, pending block state b, held pointer hd
Becomes(st, b, hd) ==
    LET n == Normalise(st.heap, st.accounts, b, hd)
    IN  /\ heap' = n.heap
        /\ accounts' = n.accounts
        /\ bs' = n.bs
        /\ held' = n.held
        /\ root' = st.root
        /\ latest' = st.latest
        /\ log' = st.log
        /\ UNCHANGED <<concVars, p2pVars, moreVars>>

\* the KV store may fail while it has failed fewer than MaxFaults times
Fails(kinds) == IF faults < MaxFaults THEN {"none"} \cup kinds ELSE {"none"}

\* no engine call has been made, no goroutine runs
EngineIdle ==
    /\ heap = <<>>
    /\ accounts = <<>>
    /\ root = EmptyTrie
    /\ latest = None
    /\ log = <<>>
    /\ bs = None
    /\ held = Nil
    /\ last = Op("NewStateDB", "nil")
    /\ chain = <<>>
    /\ clean = TRUE
    /\ puts = <<>>
    /\ faults = 0
    /\ pc = <<>>
    /\ lockedBy = 0
    /\ job = <<>>
    /\ todo = <<>>
    /\ ret = <<>>
    /\ obs = <<>>

Init ==
    /\ EngineIdle
    /\ NetIdle
    /\ NoticeIdle
    /\ ReconnIdle
    /\ SchedIdle
    /\ FactoryIdle
    /\ ManagerIdle

GenesisInfo ==
    [BlockNo |-> 0, BlockHash |-> GenesisHash, PrevHash |-> emptyBlockID]

\* SetGenesis(genesisBlock), called once at start-up, when the KV store works
OpSetGenesis ==
    /\ latest = None
    /\ LET s1 == [Engine EXCEPT !.latest = Some(GenesisInfo)]
           s2 == saveBlockState(s1, NewBlockState(0, GenesisHash, emptyBlockID),
                                FALSE)
       IN  Becomes(s2, bs, held)
    /\ last' = Op("SetGenesis", "nil")
    /\ UNCHANGED <<chain, clean, puts, faults>>

\* a caller starts the block state of a new block, on the latest block or on
\* the genesis block; a block hash names one block
OpNewBlockState ==
    /\ latest # None
    /\ \E no \in 1..MaxHeight, prev \in {latest[1].BlockHash, GenesisHash} :
        LET used == DOMAIN log \cup {GenesisHash, latest[1].BlockHash}
                      \cup {chain[i].BlockHash : i \in DOMAIN chain}
                      \cup (IF bs = None THEN {}
                            ELSE {bs[1].BlockHash, bs[1].PrevHash})
            free == BlockIDs \ used
        IN  /\ free # {}
            /\ Becomes(Engine, Some(NewBlockState(no, SetMin(free), prev)), held)
    /\ puts' = <<>>
    /\ last' = Op("NewBlockState", "nil")
    /\ UNCHANGED <<chain, clean, faults>>

\* a clone call whose result the caller reads and drops
OpGetAccountStateClone ==
    /\ latest # None
    /\ \E aid \in AccountIDs :
        Becomes(GetAccountStateClone(Engine, aid).st, bs, held)
    /\ UNCHANGED <<last, chain, clean, puts, faults>>

OpGetBlockAccountClone ==
    /\ latest # None
    /\ bs # None
    /\ \E aid \in AccountIDs :
        Becomes(GetBlockAccountClone(Engine, bs[1], aid).st, bs, held)
    /\ UNCHANGED <<last, chain, clean, puts, faults>>

\* A clone call whose result the caller keeps.  The caller keeps one clone:
\* the first it is given.
GetAccountStateCloneKeep(aid) ==
    /\ latest # None
    /\ held = Nil
    /\ Becomes(GetAccountStateClone(Engine, aid).st, bs,
               GetAccountStateClone(Engine, aid).ptr)
    /\ UNCHANGED <<last, chain, clean, puts, faults>>

GetBlockAccountCloneKeep(aid) ==
    /\ latest # None
    /\ held = Nil
    /\ bs # None
    /\ Becomes(GetBlockAccountClone(Engine, bs[1], aid).st, bs,
               GetBlockAccountClone(Engine, bs[1], aid).ptr)
    /\ UNCHANGED <<last, chain, clean, puts, faults>>

OpGetAccountStateCloneKeep == \E aid \in AccountIDs : GetAccountStateCloneKeep(aid)

OpGetBlockAccountCloneKeep == \E aid \in AccountIDs : GetBlockAccountCloneKeep(aid)

\* the state of aid as a caller that builds bs sees it (the value
\* getBlockAccount yields; an absent or nil account is the empty state)
BlockAccountVal(aid) ==
    IF aid \in DOMAIN bs[1].accounts THEN heap[bs[1].accounts[aid].State]
    ELSE IF aid \in DOMAIN accounts /\ accounts[aid] # Nil THEN heap[accounts[aid]]
    ELSE NewState

\* bs.PutAccount(aid, state, change) with pointers state and change into heap
\* h, on a block state that has not been applied
PutAccountCall(h, aid, state, change) ==
    /\ \A i \in DOMAIN chain : chain[i].BlockHash # bs[1].BlockHash
    /\ Becomes([Engine EXCEPT !.heap = h],
               Some(PutAccount(bs[1], h, aid, state, change)), held)
    /\ puts' = IF aid \in DOMAIN puts
               THEN [puts EXCEPT ![aid].lastPost = h[change], ![aid].again = TRUE]
               ELSE (aid :> [firstPre |-> h[state], lastPost |-> h[change],
                             again |-> FALSE]) @@ puts
    /\ UNCHANGED <<last, chain, clean, faults>>

\* The caller passes as state (pre) the account's state before its change
\* and as change (post) the state after it, both objects of its own.
OpPutAccount ==
    /\ latest # None
    /\ bs # None
    /\ \E aid \in CallerAccountIDs, v \in StateVals :
        LET h1 == Alloc(heap, BlockAccountVal(aid))
            h2 == Alloc(h1, v)
        IN  PutAccountCall(h2, aid, Len(h1), Len(h2))

\* The caller passes the clone it holds: as state (pre), with a changed copy
\* of its own as change, or as change (post) after it has written to it.
OpPutAccountHeld ==
    /\ latest # None
    /\ bs # None
    /\ held # Nil
    /\ \E aid \in CallerAccountIDs :
        \/ /\ heap[held] = BlockAccountVal(aid)
           /\ \E v \in StateVals :
                LET h1 == Alloc(heap, v)
                IN  PutAccountCall(h1, aid, held, Len(h1))
        \/ LET h1 == Alloc(heap, BlockAccountVal(aid))
           IN  PutAccountCall(h1, aid, Len(h1), held)

\* sdb.Apply(bs) on a KV store that fails in one of the ways of fails
ApplyCall(fails) ==
    /\ latest # None
    /\ bs # None
    /\ \E perm \in Perms, fail \in fails :
        LET r == Apply(Engine, bs[1], perm, fail)
        IN  /\ fail = "trie" => r.err = "trie"
            /\ fail # "none" => r.err # "mismatch"
            /\ Becomes(r.st, IF r.err = "nil" THEN None ELSE bs, held)
            /\ puts' = IF r.err = "nil" THEN <<>> ELSE puts
            /\ last' = Op("Apply", r.err)
            /\ chain' = IF r.st.latest # latest
                        THEN Append(chain, Serialize(heap, bs[1]))
                        ELSE chain
            /\ clean' = (clean /\ r.err \in {"nil", "mismatch"} /\ fail = "none")
            /\ faults' = IF fail = "none" THEN faults ELSE faults + 1

\* Apply(bs) on a KV store that works; the caller drops a block state once
\* it is applied
OpApply == ApplyCall({"none"})

\* Apply(bs) on a KV store that may fail
OpApplyFault == ApplyCall(Fails({"save", "trie", "meta"}))

RollbackCall(fails) ==
    /\ latest # None
    /\ \E blockNo \in 0..MaxHeight, perm \in Perms, kind \in fails,
          at \in 1..(MaxHeight + 1) :
        LET r == Rollback(Engine, blockNo, [kind |-> kind, at |-> at, perm |-> perm])
        IN  /\ kind \in {"none", "meta"} => at = 1
            /\ kind # "none" => r.err = kind
            /\ Becomes(r.st, bs, held)
            /\ last' = [Op("Rollback", r.err) EXCEPT !.target = blockNo,
                                                    !.undone = r.undone]
            /\ chain' = SubSeq(chain, 1, r.st.latest[1].BlockNo)
            /\ clean' = (clean /\ r.err = "invalid" /\ kind = "none")
            /\ faults' = IF kind = "none" THEN faults ELSE faults + 1
    /\ UNCHANGED puts

\* Rollback(blockNo) on a KV store that works
OpRollback == RollbackCall({"none"})

\* Rollback(blockNo) on a KV store that may fail
OpRollbackFault == RollbackCall(Fails({"load", "trie", "meta"}))

\* a caller that records each account of a block once
OpPutAccountOnce ==
    /\ latest # None
    /\ bs # None
    /\ \E aid \in CallerAccountIDs \ DOMAIN bs[1].accounts, v \in StateVals :
        LET h1 == Alloc(heap, BlockAccountVal(aid))
            h2 == Alloc(h1, v)
        IN  PutAccountCall(h2, aid, Len(h1), Len(h2))

\* the caller writes to the object the last clone call returned to it
OpMutate ==
    /\ held # Nil
    /\ \E v \in StateVals :
        /\ v # heap[held]
        /\ heap' = [heap EXCEPT ![held] = v]
    /\ UNCHANGED <<accounts, root, latest, log, bs, held, last, chain, clean,
                   puts, faults>>
    /\ UNCHANGED <<concVars, p2pVars, moreVars>>

\* The engine on a KV store that works, with a caller that drops the clones
\* it reads.
Next ==
    \/ OpSetGenesis
    \/ OpNewBlockState
    \/ OpGetAccountStateClone
    \/ OpGetBlockAccountClone
    \/ OpPutAccount
    \/ OpApply
    \/ OpRollback

Spec == Init /\ [][Next]_vars

\* The engine on a KV store that fails up to MaxFaults times.
NextFault ==
    \/ OpSetGenesis
    \/ OpNewBlockState
    \/ OpGetAccountStateClone
    \/ OpPutAccountOnce
    \/ OpApplyFault
    \/ OpRollbackFault

SpecFault == Init /\ [][NextFault]_vars

\* The engine on a KV store that works, with a caller that keeps and writes
\* to the clones it was given.
NextAlias ==
    \/ OpSetGenesis
    \/ OpNewBlockState
    \/ OpGetAccountStateCloneKeep
    \/ OpGetBlockAccountCloneKeep
    \/ OpPutAccountHeld
    \/ OpApply
    \/ OpMutate

SpecAlias == Init /\ [][NextAlias]_vars

\* ------------------------------------------- concurrent callers of the engine
\* Goroutines that call one engine at the same time: two call Apply, one
\* calls Rollback, one reads.  A step is one statement of the code (or a run
\* of statements that touch nothing shared).
MaxReads == 2

Appliers == {1, 2}
Rollers == {3}
Readers == {4}

\* a block state with the one entry k of b
OnlyEntry(b, k) ==
    [b EXCEPT !.accounts = [a \in {k} |-> b.accounts[a]]]

\* After SetGenesis.  Goroutine 1 applies block 1 (accounts 1 and 2 created);
\* goroutine 2 applies another block 1, or a block 2 on goroutine 1's block;
\* goroutine 3 rolls back to blockNo.
InitConc ==
    /\ \E post \in StateVals, same \in BOOLEAN, blockNo \in 0..1 :
        /\ heap = <<[Balance |-> 1], [Balance |-> 1], post>>
        /\ job = <<[NewBlockState(1, 2, GenesisHash) EXCEPT !.accounts =
                        (1 :> [State |-> 1, Undo |-> Nil])
                            @@ (2 :> [State |-> 2, Undo |-> Nil])],
                   IF same
                   THEN [NewBlockState(1, 3, GenesisHash) EXCEPT !.accounts =
                            (1 :> [State |-> 3, Undo |-> Nil])]
                   ELSE [NewBlockState(2, 3, 2) EXCEPT !.accounts =
                            (1 :> [State |-> 3, Undo |-> 1])],
                   [blockNo |-> blockNo],
                   <<>> >>
    /\ accounts = <<>>
    /\ root = EmptyTrie
    /\ latest = Some(GenesisInfo)
    /\ log = (GenesisHash :> Serialize(<<>>, NewBlockState(0, GenesisHash, emptyBlockID)))
    /\ bs = None
    /\ held = Nil
    /\ last = Op("SetGenesis", "nil")
    /\ chain = <<>>
    /\ clean = TRUE
    /\ puts = <<>>
    /\ faults = 0
    /\ pc = <<"check", "check", "check", "read">>
    /\ lockedBy = 0
    /\ todo = <<{}, {}, {}, {}>>
    /\ ret = <<"", "", "", "">>
    /\ obs = <<None, None, None, [n |-> 0, aid |-> 0, val |-> None, hash |-> None]>>
    /\ NetIdle
    /\ NoticeIdle
    /\ ReconnIdle
    /\ SchedIdle
    /\ FactoryIdle
    /\ ManagerIdle

\* Apply, statedb.go:230-236: the checks, before the lock is taken
ApplyCheck(t) ==
    /\ pc[t] = "check"
    /\ IF ApplyRejects(latest[1], job[t])
       THEN /\ pc' = [pc EXCEPT ![t] = "done"]
            /\ ret' = [ret EXCEPT ![t] = "mismatch"]
       ELSE /\ pc' = [pc EXCEPT ![t] = "lock"]
            /\ UNCHANGED ret
    /\ UNCHANGED <<moreVars, p2pVars, engineVars, callerVars, lockedBy, job, todo, obs>>

\* sdb.Lock(), line 237 (Apply) and line 258 (Rollback)
Lock(t) ==
    /\ pc[t] = "lock"
    /\ lockedBy = 0
    /\ lockedBy' = t
    /\ pc' = [pc EXCEPT ![t] = "body"]
    /\ UNCHANGED <<moreVars, p2pVars, engineVars, callerVars, job, todo, ret, obs>>

\* sdb.saveBlockState(bstate), line 240
ApplySave(t) ==
    /\ pc[t] = "body"
    /\ log' = saveBlockState(Engine, job[t], FALSE).log
    /\ todo' = [todo EXCEPT ![t] = DOMAIN job[t].accounts]
    /\ pc' = [pc EXCEPT ![t] = "accounts"]
    /\ UNCHANGED <<moreVars, p2pVars, heap, accounts, root, latest, callerVars, lockedBy, job, ret, obs>>

\* one iteration of the loop of lines 241-243, in the order the map yields
ApplyEntry(t) ==
    /\ pc[t] = "accounts"
    /\ todo[t] # {}
    /\ \E k \in todo[t] :
        /\ accounts' = ApplyAccounts(accounts, OnlyEntry(job[t], k))
        /\ todo' = [todo EXCEPT ![t] = @ \ {k}]
    /\ UNCHANGED <<moreVars, p2pVars, heap, root, latest, log, callerVars, pc, lockedBy, job, ret, obs>>

\* sdb.updateTrie(bstate, false), lines 244-247
ApplyTrie(t) ==
    /\ pc[t] = "accounts"
    /\ todo[t] = {}
    /\ \E perm \in Perms :
        root' = updateTrie(root, Serialize(heap, job[t]).accounts, FALSE, perm,
                           FALSE).root
    /\ pc' = [pc EXCEPT ![t] = "latest"]
    /\ UNCHANGED <<moreVars, p2pVars, heap, accounts, latest, log, callerVars, lockedBy, job, todo,
                   ret, obs>>

\* sdb.latest = &bstate.BlockInfo; saveStateDB; the deferred Unlock; return
\* (lines 249-251, 238): the call commits bstate
ApplyCommit(t) ==
    /\ pc[t] = "latest"
    /\ latest' = Some(BlockInfoOf(job[t]))
    /\ lockedBy' = 0
    /\ pc' = [pc EXCEPT ![t] = "done"]
    /\ ret' = [ret EXCEPT ![t] = "nil"]
    /\ UNCHANGED <<moreVars, p2pVars, heap, accounts, root, log, callerVars, job, todo, obs>>

\* Rollback, lines 255-257: the check, before the lock is taken
RollbackCheck(t) ==
    /\ pc[t] = "check"
    /\ IF latest[1].BlockNo <= job[t].blockNo
       THEN /\ pc' = [pc EXCEPT ![t] = "done"]
            /\ ret' = [ret EXCEPT ![t] = "invalid"]
       ELSE /\ pc' = [pc EXCEPT ![t] = "lock"]
            /\ UNCHANGED ret
    /\ UNCHANGED <<moreVars, p2pVars, engineVars, callerVars, lockedBy, job, todo, obs>>

\* the loop of Rollback, saveStateDB, the deferred Unlock (lines 259-288)
RollbackBody(t) ==
    /\ pc[t] = "body"
    /\ \E perm \in Perms :
        LET r == RollbackLoop(Engine, [BlockNo |-> latest[1].BlockNo,
                                       BlockHash |-> latest[1].BlockHash],
                              job[t].blockNo, 1,
                              [kind |-> "none", at |-> 1, perm |-> perm], <<>>)
        IN  /\ heap' = r.st.heap
            /\ accounts' = r.st.accounts
            /\ root' = r.st.root
            /\ latest' = r.st.latest
            /\ ret' = [ret EXCEPT ![t] = r.err]
    /\ lockedBy' = 0
    /\ pc' = [pc EXCEPT ![t] = "done"]
    /\ UNCHANGED <<moreVars, p2pVars, log, callerVars, job, todo, obs>>

\* GetAccountStateClone(aid), lines 166-173: no lock is taken; the clone is
\* read and dropped
ReadAccount(t) ==
    /\ pc[t] = "read"
    /\ obs[t].n < MaxReads
    /\ \E aid \in CallerAccountIDs :
        LET g == getAccountState(Engine, aid)
            r == GetAccountStateClone(Engine, aid)
        IN  /\ heap' = g.st.heap
            /\ accounts' = g.st.accounts
            /\ obs' = [obs EXCEPT ![t] = [n |-> @.n + 1, aid |-> aid,
                                          val |-> ValOf(r.st.heap, r.ptr),
                                          hash |-> None]]
            /\ pc' = [pc EXCEPT ![t] = IF r.res = "panic" THEN "panic" ELSE "read"]
    /\ UNCHANGED <<moreVars, p2pVars, root, latest, log, callerVars, lockedBy, job, todo, ret>>

\* GetHash(), lines 291-293: no lock is taken
ReadHash(t) ==
    /\ pc[t] = "read"
    /\ obs[t].n < MaxReads
    /\ obs' = [obs EXCEPT ![t] = [n |-> @.n + 1, aid |-> 0, val |-> None,
                                  hash |-> Some(GetHashRoot(Engine))]]
    /\ UNCHANGED <<moreVars, p2pVars, engineVars, callerVars, pc, lockedBy, job, todo, ret>>

OpApplyCheck == \E t \in Appliers : ApplyCheck(t)
OpLock == \E t \in Appliers \cup Rollers : Lock(t)
OpApplySave == \E t \in Appliers : ApplySave(t)
OpApplyEntry == \E t \in Appliers : ApplyEntry(t)
OpApplyTrie == \E t \in Appliers : ApplyTrie(t)
OpApplyCommit == \E t \in Appliers : ApplyCommit(t)
OpRollbackCheck == \E t \in Rollers : RollbackCheck(t)
OpRollbackBody == \E t \in Rollers : RollbackBody(t)
OpReadAccount == \E t \in Readers : ReadAccount(t)
OpReadHash == \E t \in Readers : ReadHash(t)

NextConc ==
    \/ OpApplyCheck
    \/ OpLock
    \/ OpApplySave
    \/ OpApplyEntry
    \/ OpApplyTrie
    \/ OpApplyCommit
    \/ OpRollbackCheck
    \/ OpRollbackBody
    \/ OpReadAccount
    \/ OpReadHash

SpecConc == InitConc /\ [][NextConc]_vars

\* ------------------------------------------------------- peer managers
MaxNodes == 3
MaxStreams == 2

Nodes == 1..MaxNodes

\* ps.designatedPeers of each node, read from its configuration
designatedPeers == <<{2}, {}, {1}>>

RUNNING == "RUNNING"
STOPPING == "STOPPING"

ComparePeerID(a, b) == IF a < b THEN 0 - 1 ELSE IF a = b THEN 0 ELSE 1

\* the orders in which a range over a map with keys S can yield them
Orders(S) ==
    {o \in [1..Cardinality(S) -> S] :
        \A i, j \in 1..Cardinality(S) : i # j => o[i] # o[j]}

\* insertPeer that appends to the slice instead of rebuilding it
insertPeerAppending(ps, ID, peer, order) ==
    [remotePeers |-> (ID :> peer) @@ ps.remotePeers,
     peerCache |-> Append(ps.peerCache, peer)]

\* ps.insertPeer(ID, peer): sets the map entry and rebuilds peerCache from
\* the map, in the order the range yields
insertPeer(ps, ID, peer, order) ==
    LET m == (ID :> peer) @@ ps.remotePeers
    IN  [remotePeers |-> m,
         peerCache |-> [i \in 1..Len(order) |-> m[order[i]]]]

\* ps.deletePeer(ID)
deletePeer(ps, ID, order) ==
    LET m == [k \in DOMAIN ps.remotePeers \ {ID} |-> ps.remotePeers[k]]
    IN  [remotePeers |-> m,
         peerCache |-> [i \in 1..Len(order) |-> m[order[i]]]]

\* the peer manager of node n
Ps(n) == [remotePeers |-> remotePeers[n], peerCache |-> peerCache[n]]

\* newRemotePeer(meta, ps, ...) with its rw set to stream s, after
\* setState(types.RUNNING)
newRemotePeer(n, meta, s) ==
    [owner |-> n, id |-> meta.ID, stream |-> s, state |-> RUNNING,
     designated |-> meta.Designated]

\* the calls one pass of the manager loop made on the reconnect manager
RmCall(call, n, id) == <<[call |-> call, node |-> n, id |-> id]>>

MgrIdle == [at |-> "idle", meta |-> [ID |-> 0, Designated |-> FALSE], stream |-> 0]

\* the metas that can arrive on addPeerChannel of node n: its designated
\* peers, and peers from the pool, whose flag is cleared
Metas(n) ==
    {m \in [ID : Nodes \ {n}, Designated : BOOLEAN] :
        m.Designated => m.ID \in designatedPeers[n]}

\* Register stream s with a new RemotePeer in the manager of node n
Register(n, meta, s) ==
    \E order \in Orders(DOMAIN remotePeers[n] \cup {meta.ID}) :
        LET ps == insertPeer(Ps(n), meta.ID, Len(rpeers) + 1, order)
        IN  /\ rpeers' = Append(rpeers, newRemotePeer(n, meta, s))
            /\ remotePeers' = [remotePeers EXCEPT ![n] = ps.remotePeers]
            /\ peerCache' = [peerCache EXCEPT ![n] = ps.peerCache]

CloseStream(ss, s, n) == [ss EXCEPT ![s].closed = @ \cup {n}]

\* the calls on ps.rm of a loop that does not test what addOutboundPeer
\* returned
AddCallsAnyResult(n, id, added) ==
    IF id \in designatedPeers[n] THEN RmCall("CancelJob", n, id) ELSE <<>>

\* the calls on ps.rm after addOutboundPeer(meta) returned added
\* (lines 311-315)
AddCalls(n, id, added) ==
    IF added /\ id \in designatedPeers[n] THEN RmCall("CancelJob", n, id) ELSE <<>>

\* the calls on ps.rm after removePeer(id) returned true for any peer
RemoveCallsAnyPeer(n, id, removed) ==
    IF removed THEN RmCall("AddJob", n, id) ELSE <<>>

\* the calls on ps.rm after removePeer(id) returned removed (lines 317-321)
RemoveCalls(n, id, removed) ==
    IF removed /\ id \in designatedPeers[n] THEN RmCall("AddJob", n, id) ELSE <<>>

\* the jobs of the reconnect managers after the calls cs: AddJob adds a job
\* for the id unless it has one, CancelJob drops it
JobsAfter(js, cs) ==
    IF cs = <<>> THEN js
    ELSE IF cs[1].call = "AddJob"
         THEN [js EXCEPT ![cs[1].node] = @ \cup {cs[1].id}]
         ELSE [js EXCEPT ![cs[1].node] = @ \ {cs[1].id}]

InitPeers ==
    /\ EngineIdle
    /\ NoticeIdle
    /\ ReconnIdle
    /\ SchedIdle
    /\ FactoryIdle
    /\ ManagerIdle
    /\ remotePeers = [n \in Nodes |-> <<>>]
    /\ peerCache = [n \in Nodes |-> <<>>]
    /\ rpeers = <<>>
    /\ streams = <<>>
    /\ mgr = [n \in Nodes |-> MgrIdle]
    /\ jobs = [n \in Nodes |-> {}]
    /\ loopLast = <<>>
    /\ bcast = None
    /\ sent = {}

\* the manager loop of node n takes meta from addPeerChannel and calls
\* addOutboundPeer (line 311), up to the end of the handshake (line 382)
AddOutboundStart(n, meta) ==
    /\ mgr[n].at = "idle"
    /\ IF meta.ID \in DOMAIN remotePeers[n]
       THEN /\ rpeers' = [rpeers EXCEPT ![remotePeers[n][meta.ID]].designated =
                             @ \/ meta.Designated]
            /\ loopLast' = AddCalls(n, meta.ID, TRUE)
            /\ jobs' = JobsAfter(jobs, AddCalls(n, meta.ID, TRUE))
            /\ UNCHANGED <<streams, mgr>>
       ELSE /\ Len(streams) < MaxStreams
            /\ streams' = Append(streams, [from |-> n, to |-> meta.ID,
                                           hs |-> "", closed |-> {},
                                           accepted |-> FALSE])
            /\ mgr' = [mgr EXCEPT ![n] = [at |-> "handshake", meta |-> meta,
                                          stream |-> Len(streams) + 1]]
            /\ UNCHANGED <<rpeers, jobs, loopLast>>
    /\ UNCHANGED <<remotePeers, peerCache, bcast, sent>>
    /\ UNCHANGED <<engineVars, callerVars, concVars, noticeVars, reconnVars,
                   moreVars>>

\* addOutboundPeer from the result of doHandshake (line 377) to its return,
\* and the rest of the pass of the loop (lines 312-314)
AddOutboundFinish(n, success) ==
    LET meta == mgr[n].meta
        s == mgr[n].stream
        found == meta.ID \in DOMAIN remotePeers[n]
    IN  /\ mgr[n].at = "handshake"
        /\ mgr' = [mgr EXCEPT ![n] = MgrIdle]
        /\ IF ~success
           THEN /\ streams' = [CloseStream(streams, s, n) EXCEPT ![s].hs = "failed"]
                /\ loopLast' = AddCalls(n, meta.ID, FALSE)
                /\ UNCHANGED <<remotePeers, peerCache, rpeers, jobs>>
           ELSE /\ loopLast' = AddCalls(n, meta.ID, TRUE)
                /\ jobs' = JobsAfter(jobs, AddCalls(n, meta.ID, TRUE))
                /\ IF found /\ ComparePeerID(n, meta.ID) <= 0
                   THEN /\ streams' = [CloseStream(streams, s, n) EXCEPT ![s].hs = "ok"]
                        /\ UNCHANGED <<remotePeers, peerCache, rpeers>>
                   ELSE /\ Register(n, meta, s)
                        /\ streams' = [streams EXCEPT ![s].hs = "ok"]
        /\ UNCHANGED <<bcast, sent>>
        /\ UNCHANGED <<engineVars, callerVars, concVars, noticeVars, reconnVars,
                   moreVars>>

\* tryAddInboundPeer without the arbitration: every inbound stream is
\* registered
TryAddInboundAlways(s) ==
    LET n == streams[s].to
        meta == [ID |-> streams[s].from, Designated |-> FALSE]
    IN  /\ ~streams[s].accepted
        /\ Register(n, meta, s)
        /\ streams' = [streams EXCEPT ![s].accepted = TRUE]
        /\ UNCHANGED <<mgr, jobs, loopLast, bcast, sent>>
        /\ UNCHANGED <<engineVars, callerVars, concVars, noticeVars, reconnVars,
                   moreVars>>

\* the stream handler of the node that stream s was opened to: after the
\* handshake it calls tryAddInboundPeer with the meta of the dialling node,
\* and closes the stream if that returns false
TryAddInbound(s) ==
    LET n == streams[s].to
        meta == [ID |-> streams[s].from, Designated |-> FALSE]
        found == meta.ID \in DOMAIN remotePeers[n]
    IN  /\ ~streams[s].accepted
        /\ IF found /\ ComparePeerID(n, meta.ID) <= 0
           THEN /\ streams' = [CloseStream(streams, s, n) EXCEPT ![s].accepted = TRUE]
                /\ UNCHANGED <<remotePeers, peerCache, rpeers>>
           ELSE /\ Register(n, meta, s)
                /\ streams' = [streams EXCEPT ![s].accepted = TRUE]
        /\ UNCHANGED <<mgr, jobs, loopLast, bcast, sent>>
        /\ UNCHANGED <<engineVars, callerVars, concVars, noticeVars, reconnVars,
                   moreVars>>

\* the manager loop of node n takes id from removePeerChannel: removePeer(id)
\* and, if it returns true for a designated peer, ps.rm.AddJob (lines 316-321)
RemoveLoop(n, id) ==
    LET found == id \in DOMAIN remotePeers[n]
    IN  /\ mgr[n].at = "idle"
        /\ loopLast' = RemoveCalls(n, id, found)
        /\ jobs' = JobsAfter(jobs, RemoveCalls(n, id, found))
        /\ IF ~found
           THEN UNCHANGED <<remotePeers, peerCache, rpeers, streams>>
           ELSE /\ \E order \in Orders(DOMAIN remotePeers[n] \ {id}) :
                    LET ps == deletePeer(Ps(n), id, order)
                    IN  /\ remotePeers' = [remotePeers EXCEPT ![n] = ps.remotePeers]
                        /\ peerCache' = [peerCache EXCEPT ![n] = ps.peerCache]
                /\ rpeers' = [rpeers EXCEPT ![remotePeers[n][id]].state = STOPPING]
                /\ streams' = [s \in DOMAIN streams |->
                                 IF {streams[s].from, streams[s].to} = {n, id}
                                 THEN [streams[s] EXCEPT !.closed = @ \cup {n}]
                                 ELSE streams[s]]
        /\ UNCHANGED <<mgr, bcast, sent>>
        /\ UNCHANGED <<engineVars, callerVars, concVars, noticeVars, reconnVars,
                   moreVars>>

\* NotifyNewBlock / NotifyNewTX of node n: p.pm.GetPeers() hands out the
\* slice ps.peerCache as it is now
NotifyStart(n, kind) ==
    /\ bcast = None
    /\ bcast' = Some([node |-> n, kind |-> kind, peers |-> peerCache[n]])
    /\ UNCHANGED <<remotePeers, peerCache, rpeers, streams, mgr, jobs, loopLast, sent>>
    /\ UNCHANGED <<engineVars, callerVars, concVars, noticeVars, reconnVars,
                   moreVars>>

\* the protocol ids of the two notices
newBlockNotice == "newBlockNotice"
newTxNotice == "newTxNotice"

\* insertHandlers: the protocol id under which a peer's handler table holds
\* the handler of a payload kind
handlers(kind) == IF kind = "NewBlock" THEN newBlockNotice ELSE newTxNotice

\* the notices the body of the loop gives to sendMessage for peer object o:
\* NotifyNewBlock (lines 68-83) tests the state, NotifyNewTX (lines 149-155)
\* does not; both build the message with newBlockNotice (lines 75, 152)
NoticesFor(kind, o) ==
    IF kind = "NewBlock"
    THEN IF rpeers[o].state = RUNNING
         THEN {[kind |-> kind, state |-> rpeers[o].state,
                proto |-> newBlockNotice]}
         ELSE {}
    ELSE {[kind |-> kind, state |-> rpeers[o].state,
           proto |-> newBlockNotice]}

\* one iteration of the loop over the slice, and the return after the last
NotifyStep ==
    /\ bcast # None
    /\ IF bcast[1].peers = <<>>
       THEN /\ bcast' = None
            /\ UNCHANGED sent
       ELSE /\ sent' = sent \cup NoticesFor(bcast[1].kind, Head(bcast[1].peers))
            /\ bcast' = Some([bcast[1] EXCEPT !.peers = Tail(@)])
    /\ UNCHANGED <<remotePeers, peerCache, rpeers, streams, mgr, jobs, loopLast>>
    /\ UNCHANGED <<engineVars, callerVars, concVars, noticeVars, reconnVars,
                   moreVars>>

OpAddOutboundStart == \E n \in Nodes : \E meta \in Metas(n) : AddOutboundStart(n, meta)
OpAddOutboundFinish == \E n \in Nodes, success \in BOOLEAN : AddOutboundFinish(n, success)
OpTryAddInbound == \E s \in DOMAIN streams : TryAddInbound(s)
OpRemoveLoop == \E n \in Nodes : \E id \in Nodes \ {n} : RemoveLoop(n, id)
OpNotifyStart == \E n \in Nodes, kind \in {"NewBlock", "NewTX"} : NotifyStart(n, kind)

NextPeers ==
    \/ OpAddOutboundStart
    \/ OpAddOutboundFinish
    \/ OpTryAddInbound
    \/ OpRemoveLoop

SpecPeers == InitPeers /\ [][NextPeers]_vars

\* broadcasts: node 1 has dialled nodes 2 and 3, both streams are registered
\* on both sides; from there peers are removed while broadcasts run
InitBroadcast ==
    /\ EngineIdle
    /\ NoticeIdle
    /\ ReconnIdle
    /\ SchedIdle
    /\ FactoryIdle
    /\ ManagerIdle
    /\ streams = <<[from |-> 1, to |-> 2, hs |-> "ok", closed |-> {},
                    accepted |-> TRUE],
                   [from |-> 1, to |-> 3, hs |-> "ok", closed |-> {},
                    accepted |-> TRUE]>>
    /\ rpeers = <<newRemotePeer(1, [ID |-> 2, Designated |-> TRUE], 1),
                  newRemotePeer(2, [ID |-> 1, Designated |-> FALSE], 1),
                  newRemotePeer(1, [ID |-> 3, Designated |-> FALSE], 2),
                  newRemotePeer(3, [ID |-> 1, Designated |-> FALSE], 2)>>
    /\ remotePeers = <<(2 :> 1) @@ (3 :> 3), (1 :> 2), (1 :> 4)>>
    /\ \E order \in Orders({2, 3}) :
          peerCache = <<[i \in 1..2 |-> remotePeers[1][order[i]]], <<2>>, <<4>>>>
    /\ mgr = [n \in Nodes |-> MgrIdle]
    /\ jobs = [n \in Nodes |-> {}]
    /\ loopLast = <<>>
    /\ bcast = None
    /\ sent = {}

NextBroadcast ==
    \/ OpRemoveLoop
    \/ OpNotifyStart
    \/ NotifyStep

SpecBroadcast == InitBroadcast /\ [][NextBroadcast]_vars

\* ------------------------------------------------- block notice cache
\* the capacity of ps.invCache (100 in the source, line 47), scaled down
DefaultGlobalInvCacheSize == 2
MaxHashes == 3
MaxRequests == 3

BlockHashes == 1..MaxHashes

\* the peers whose read tasks deliver notices
NoticePeers == {1, 2}

\* a ContainsOrAdd that reports every key as new
ContainsOrAddBlind(cache, key) ==
    [ok |-> FALSE,
     cache |-> IF Len(cache) >= DefaultGlobalInvCacheSize
               THEN Append(Tail(cache), key) ELSE Append(cache, key)]

\* lru.Cache.ContainsOrAdd(key, value), one step under the cache's lock: a key
\* that is present is reported and its recency left alone; a key that is not
\* is added as the most recent, the least recent one making room for it
ContainsOrAdd(cache, key) ==
    IF \E i \in DOMAIN cache : cache[i] = key
    THEN [ok |-> TRUE, cache |-> cache]
    ELSE [ok |-> FALSE,
          cache |-> IF Len(cache) >= DefaultGlobalInvCacheSize
                    THEN Append(Tail(cache), key) ELSE Append(cache, key)]

TaskIdle == [at |-> "idle", hash |-> 0, last |-> ""]

GetBlock(h) == [kind |-> "GetBlock", hash |-> h, to |-> 0]
GetBlockInfos(h, peerID) == [kind |-> "GetBlockInfos", hash |-> h, to |-> peerID]

InitNotice ==
    /\ EngineIdle
    /\ NetIdle
    /\ ReconnIdle
    /\ SchedIdle
    /\ FactoryIdle
    /\ ManagerIdle
    /\ invCache = <<>>
    /\ ntask = [t \in NoticePeers |-> TaskIdle]
    /\ reqs = <<>>

\* HandleNewBlockNotice(peerID, b64hash, data) on the read task of peer t, to
\* its return when the hash is known (lines 780-787)
NoticeCheck(t, h) ==
    LET r == ContainsOrAdd(invCache, h)
    IN  /\ ntask[t].at = "idle"
        /\ Len(reqs) < MaxRequests
        /\ invCache' = r.cache
        /\ ntask' = [ntask EXCEPT ![t] =
                        IF r.ok THEN [at |-> "idle", hash |-> h, last |-> "hit"]
                        ELSE [at |-> "call", hash |-> h, last |-> "miss"]]
        /\ UNCHANGED reqs
        /\ UNCHANGED <<engineVars, callerVars, concVars, netVars, reconnVars,
                   moreVars>>

\* the rest of HandleNewBlockNotice (lines 789-804): CallRequest of GetBlock
\* on the chain service, which answers with the block ("found"), with
\* resp.Err set ("notfound"), with an error or with another type
NoticeCall(t, answer) ==
    /\ ntask[t].at = "call"
    /\ reqs' = Append(reqs, GetBlock(ntask[t].hash))
                 \o (IF answer = "notfound"
                     THEN <<GetBlockInfos(ntask[t].hash, t)>> ELSE <<>>)
    /\ ntask' = [ntask EXCEPT ![t].at = "idle"]
    /\ UNCHANGED invCache
    /\ UNCHANGED <<engineVars, callerVars, concVars, netVars, reconnVars,
                   moreVars>>

OpNoticeCheck == \E t \in NoticePeers, h \in BlockHashes : NoticeCheck(t, h)
OpNoticeCall ==
    \E t \in NoticePeers, answer \in {"found", "notfound", "error", "badtype"} :
        NoticeCall(t, answer)

NextNotice ==
    \/ OpNoticeCheck
    \/ OpNoticeCall

SpecNotice == InitNotice /\ [][NextNotice]_vars

\* --------------------------------------------------------- reconnect job
MaxAbsent == 5
MaxCalls == 2 * MaxAbsent + 1

\* the peer is never present
Forever == 0 - 1

\* the retry schedule in ticks, increasing (reconnect_test.go:30-35), and the
\* number of trials after which the last interval repeats
durations == <<1, 2, 3, 4>>
maxTrial == Len(durations)

getNextInterval(trial) == durations[IF trial < maxTrial THEN trial ELSE maxTrial]

\* a runner that looks at the cancellation only when its sleep has elapsed
InterruptibleWhenElapsed(r) == r.at = "sleep" /\ r.timer = 0

\* the runner waits for the timer or for the cancellation, whichever is first
Interruptible(r) == r.at = "sleep"

\* a runner that asks for the peer to be added whatever GetPeer reported
AfterLookupAlwaysAdd(r, found) == [r EXCEPT !.at = "add"]

\* the runner after GetPeer reported found
AfterLookup(r, found) ==
    IF found THEN [r EXCEPT !.at = "done", !.exit = "present"]
    ELSE [r EXCEPT !.at = "add"]

\* newReconnectRunner(meta, rm, pm, logger) for a peer that GetPeer reports
\* absent k times (Forever: always), then present
InitReconnect ==
    /\ EngineIdle
    /\ NetIdle
    /\ NoticeIdle
    /\ SchedIdle
    /\ FactoryIdle
    /\ ManagerIdle
    /\ \E k \in 0..MaxAbsent \cup {Forever} :
        /\ absent = k
        /\ runner = [at |-> "sleep", trial |-> 0, timer |-> 0, cancel |-> FALSE,
                     exit |-> "", k |-> k]
    /\ calls = <<>>

\* time passes while the runner sleeps
TimePasses ==
    /\ runner.at = "sleep"
    /\ runner.timer > 0
    /\ runner' = [runner EXCEPT !.timer = @ - 1]
    /\ UNCHANGED <<absent, calls>>
    /\ UNCHANGED <<engineVars, callerVars, concVars, netVars, noticeVars,
                   moreVars>>

\* the sleep has elapsed: the runner calls pm.GetPeer(meta.ID)
Lookup ==
    /\ runner.at = "sleep"
    /\ runner.timer = 0
    /\ Len(calls) < MaxCalls
    /\ calls' = Append(calls, "GetPeer")
    /\ absent' = IF absent > 0 THEN absent - 1 ELSE absent
    /\ runner' = AfterLookup(runner, absent = 0)
    /\ UNCHANGED <<engineVars, callerVars, concVars, netVars, noticeVars,
                   moreVars>>

\* the peer was absent: pm.AddNewPeer(meta), then sleep for the next interval
Add ==
    /\ runner.at = "add"
    /\ calls' = Append(calls, "AddNewPeer")
    /\ runner' = [runner EXCEPT !.at = "sleep", !.trial = @ + 1,
                                !.timer = getNextInterval(runner.trial + 1)]
    /\ UNCHANGED absent
    /\ UNCHANGED <<engineVars, callerVars, concVars, netVars, noticeVars,
                   moreVars>>

\* rm.CancelJob(meta.ID) from another goroutine: signals the runner
CancelJob ==
    /\ runner.at # "done"
    /\ ~runner.cancel
    /\ runner' = [runner EXCEPT !.cancel = TRUE]
    /\ UNCHANGED <<absent, calls>>
    /\ UNCHANGED <<engineVars, callerVars, concVars, netVars, noticeVars,
                   moreVars>>

\* the runner receives the cancellation and leaves its loop
ObserveCancel ==
    /\ Interruptible(runner)
    /\ runner.cancel
    /\ runner' = [runner EXCEPT !.at = "done", !.exit = "cancelled"]
    /\ UNCHANGED <<absent, calls>>
    /\ UNCHANGED <<engineVars, callerVars, concVars, netVars, noticeVars,
                   moreVars>>

NextReconnect ==
    \/ TimePasses
    \/ Lookup
    \/ Add
    \/ CancelJob
    \/ ObserveCancel

SpecReconnect == InitReconnect /\ [][NextReconnect]_vars

\* the runner's goroutine is scheduled; where both the timer and the
\* cancellation are ready the select takes either, neither forever
RunnerFair == WF_vars(Lookup) /\ WF_vars(Add) /\ SF_vars(ObserveCancel)

\* time passes as well
SpecReconnectLive == SpecReconnect /\ RunnerFair /\ WF_vars(TimePasses)

\* nothing is assumed about time
SpecReconnectCancel == SpecReconnect /\ RunnerFair

\* ------------------------------------------------------ backoff schedule
MaxInitSecs == 3
MaxIncParts == 3
MaxCount == 4

\* the increments inc > 0, as fractions num / den
Incs == [num : 1..MaxIncParts, den : 1..MaxIncParts]

\* durations are kept exact, as fractions of a second <<num, den>>, den > 0
DurLess(a, b) == a[1] * b[2] < b[1] * a[2]

\* a schedule whose i-th duration is initSecs * inc^i
generateExpDurationNoBase(initSecs, inc, count) ==
    [i \in 1..count |-> <<initSecs * inc.num ^ (i - 1), inc.den ^ (i - 1)>>]

\* generateExpDuration(initSecs, inc, count): count durations, the i-th
\* (from 0) being initSecs * (1 + inc)^i
generateExpDuration(initSecs, inc, count) ==
    [i \in 1..count |->
        <<initSecs * (inc.den + inc.num) ^ (i - 1), inc.den ^ (i - 1)>>]

InitSched ==
    /\ EngineIdle
    /\ NetIdle
    /\ NoticeIdle
    /\ ReconnIdle
    /\ FactoryIdle
    /\ ManagerIdle
    /\ sched \in [initSecs : 1..MaxInitSecs, inc : Incs, count : 0..MaxCount,
                  done : {FALSE}, got : {<<>>}]

\* got := generateExpDuration(tt.initSecs, tt.inc, tt.count)
CallGenerate ==
    /\ ~sched.done
    /\ sched' = [sched EXCEPT
                    !.done = TRUE,
                    !.got = generateExpDuration(sched.initSecs, sched.inc,
                                                sched.count)]
    /\ UNCHANGED <<engineVars, callerVars, concVars, p2pVars, bfVars, pmVars>>

NextSched == CallGenerate

SpecSched == InitSched /\ [][NextSched]_vars

\* -------------------------------------------------------- block factory
MaxJobs == 3
MaxTxs == 2

Jobs == 1..MaxJobs

\* bf.checkBpTimeout(): the outcomes of its select on a channel holding c
\* when quit is q; where both cases are ready either may be taken
checkBpTimeout(c, q) ==
    (IF c # <<>> THEN {[err |-> "timeout", c |-> Tail(c)]} ELSE {})
        \cup (IF q THEN {[err |-> "quit", c |-> c]} ELSE {})
        \cup (IF c = <<>> /\ ~q THEN {[err |-> "nil", c |-> c]} ELSE {})

\* a beginBlock that does not look at bpTimeoutC
BeginBlockNoDrain(c, q) == {[err |-> "nil", c |-> c]}

\* beginBlock, lines 96-98: checkBpTimeout to drain an unconsumed signal
BeginBlockDrain(c, q) == checkBpTimeout(c, q)

CtlAt(at, j) == [at |-> at, job |-> j]
WrkAt(at, j, left, body) == [at |-> at, job |-> j, left |-> left, body |-> body]

\* BlockFactory.Start(): both tasks are about to enter their loops
InitFactory ==
    /\ EngineIdle
    /\ NetIdle
    /\ NoticeIdle
    /\ ReconnIdle
    /\ SchedIdle
    /\ ManagerIdle
    /\ jobQueue = <<>>
    /\ bpTimeoutC = <<>>
    /\ quit = FALSE
    /\ ctl = CtlAt("select", 0)
    /\ wrk = WrkAt("select", 0, 0, 0)
    /\ bfLog = [submitted |-> 0, fate |-> [j \in Jobs |-> ""], blocks |-> <<>>]

BfFrame ==
    UNCHANGED <<engineVars, callerVars, concVars, p2pVars, schedVars, pmVars>>

\* a slot tick puts the next job on bf.JobQueue(); a controller parked in
\* its select is woken with it
Submit ==
    /\ bfLog.submitted < MaxJobs
    /\ bfLog' = [bfLog EXCEPT !.submitted = @ + 1]
    /\ IF ctl.at = "parked"
       THEN /\ ctl' = CtlAt("begin", bfLog.submitted + 1)
            /\ UNCHANGED jobQueue
       ELSE /\ jobQueue' = Append(jobQueue, bfLog.submitted + 1)
            /\ UNCHANGED ctl
    /\ UNCHANGED <<bpTimeoutC, quit, wrk>>
    /\ BfFrame

\* quit is signalled: a task parked in its select leaves through the quit
\* case (lines 145-146, 167-168)
Quit ==
    /\ ~quit
    /\ quit' = TRUE
    /\ ctl' = IF ctl.at = "parked" THEN CtlAt("exit", 0) ELSE ctl
    /\ wrk' = IF wrk.at = "parked" THEN WrkAt("exit", 0, 0, 0) ELSE wrk
    /\ UNCHANGED <<jobQueue, bpTimeoutC, bfLog>>
    /\ BfFrame

\* the controller reaches its select (lines 127-147): it takes a job or the
\* quit case, whichever is ready, either when both are; it parks when none is
CtlSelect ==
    /\ ctl.at = "select"
    /\ \/ /\ jobQueue # <<>>
          /\ ctl' = CtlAt("begin", Head(jobQueue))
          /\ jobQueue' = Tail(jobQueue)
       \/ /\ quit
          /\ ctl' = CtlAt("exit", 0)
          /\ UNCHANGED jobQueue
       \/ /\ jobQueue = <<>> /\ ~quit
          /\ ctl' = CtlAt("parked", 0)
          /\ UNCHANGED jobQueue
    /\ UNCHANGED <<bpTimeoutC, quit, wrk, bfLog>>
    /\ BfFrame

\* beginBlock (lines 92-112) up to the test of the time left in the slot
CtlBegin(expired) ==
    /\ ctl.at = "begin"
    /\ \E r \in BeginBlockDrain(bpTimeoutC, quit) :
        /\ bpTimeoutC' = r.c
        /\ IF r.err = "quit"
           THEN /\ ctl' = CtlAt("exit", 0)
                /\ UNCHANGED bfLog
           ELSE IF expired
           THEN /\ ctl' = CtlAt("select", 0)
                /\ bfLog' = [bfLog EXCEPT !.fate[ctl.job] = "expired"]
           ELSE /\ ctl' = CtlAt("handoff", ctl.job)
                /\ UNCHANGED bfLog
    /\ UNCHANGED <<jobQueue, quit, wrk>>
    /\ BfFrame

\* a hand-off that gives the worker the job whatever the worker is doing
CtlHandoffAlways(txs) ==
    /\ ctl.at = "handoff"
    /\ ctl' = CtlAt("sleep", ctl.job)
    /\ wrk' = WrkAt("assemble", ctl.job, txs, 0)
    /\ bfLog' = [bfLog EXCEPT !.fate[ctl.job] =
                    IF wrk.at = "parked" THEN "handed" ELSE "skipped"]
    /\ UNCHANGED <<jobQueue, bpTimeoutC, quit>>
    /\ BfFrame

\* the select of lines 105-111: the send on the unbuffered workerQueue
\* succeeds if the worker is parked in its receive; txs transactions are
\* in the mempool for it
CtlHandoff(txs) ==
    /\ ctl.at = "handoff"
    /\ ctl' = CtlAt("sleep", ctl.job)
    /\ IF wrk.at = "parked"
       THEN /\ wrk' = WrkAt("assemble", ctl.job, txs, 0)
            /\ bfLog' = [bfLog EXCEPT !.fate[ctl.job] = "handed"]
       ELSE /\ bfLog' = [bfLog EXCEPT !.fate[ctl.job] = "skipped"]
            /\ UNCHANGED wrk
    /\ UNCHANGED <<jobQueue, bpTimeoutC, quit>>
    /\ BfFrame

\* notifyBpTimeout (lines 115-121): the sleep of GetBpTimeout ms is over
CtlSlept ==
    /\ ctl.at = "sleep"
    /\ ctl' = CtlAt("send", ctl.job)
    /\ UNCHANGED <<jobQueue, bpTimeoutC, quit, wrk, bfLog>>
    /\ BfFrame

\* bf.bpTimeoutC <- struct{}{} (line 120), on a channel of capacity 1; the
\* signal is tagged with the job it was sent for
CtlSend ==
    /\ ctl.at = "send"
    /\ Len(bpTimeoutC) < 1
    /\ bpTimeoutC' = Append(bpTimeoutC, ctl.job)
    /\ ctl' = CtlAt("select", 0)
    /\ UNCHANGED <<jobQueue, quit, wrk, bfLog>>
    /\ BfFrame

\* the worker reaches its select (lines 154-169): no sender waits on
\* workerQueue, so it takes the quit case if quit is signalled and parks if
\* it is not
WrkSelect ==
    /\ wrk.at = "select"
    /\ wrk' = IF quit THEN WrkAt("exit", 0, 0, 0) ELSE WrkAt("parked", 0, 0, 0)
    /\ UNCHANGED <<jobQueue, bpTimeoutC, quit, ctl, bfLog>>
    /\ BfFrame

\* chain.GenerateBlock offers the next transaction to bf.txOp: the timeout
\* probe (lines 187-196) runs; nil includes the transaction, a timeout
\* halts the inclusion, the quit sentinel ends the worker (line 158)
WrkProbe ==
    /\ wrk.at = "assemble"
    /\ wrk.left > 0
    /\ \E r \in checkBpTimeout(bpTimeoutC, quit) :
        /\ bpTimeoutC' = r.c
        /\ wrk' = IF r.err = "quit" THEN WrkAt("exit", 0, 0, 0)
                  ELSE IF r.err = "timeout" THEN [wrk EXCEPT !.left = 0, !.at = "seal"]
                  ELSE [wrk EXCEPT !.left = @ - 1, !.body = @ + 1]
    /\ UNCHANGED <<jobQueue, quit, ctl, bfLog>>
    /\ BfFrame

\* no transaction is left, or inclusion was halted: the block is sealed,
\* signed and connected (lines 173-184, 165), the worker loops
WrkConnect ==
    /\ \/ wrk.at = "seal"
       \/ wrk.at = "assemble" /\ wrk.left = 0
    /\ bfLog' = [bfLog EXCEPT !.blocks =
                    Append(@, [job |-> wrk.job, body |-> wrk.body,
                               halted |-> wrk.at = "seal", quit |-> quit])]
    /\ wrk' = WrkAt("select", 0, 0, 0)
    /\ UNCHANGED <<jobQueue, bpTimeoutC, quit, ctl>>
    /\ BfFrame

OpCtlBegin == \E expired \in BOOLEAN : CtlBegin(expired)
OpCtlHandoff == \E txs \in 0..MaxTxs : CtlHandoff(txs)

NextController == CtlSelect \/ OpCtlBegin \/ OpCtlHandoff \/ CtlSlept \/ CtlSend
NextWorker == WrkSelect \/ WrkProbe \/ WrkConnect

NextFactory ==
    \/ Submit
    \/ Quit
    \/ CtlSelect
    \/ OpCtlBegin
    \/ OpCtlHandoff
    \/ CtlSlept
    \/ CtlSend
    \/ WrkSelect
    \/ WrkProbe
    \/ WrkConnect

SpecFactory == InitFactory /\ [][NextFactory]_vars

\* both tasks are scheduled; a select with several ready cases takes each
\* of them sooner or later
SpecFactoryLive ==
    /\ SpecFactory
    /\ WF_vars(NextController)
    /\ WF_vars(NextWorker)
    /\ SF_vars(CtlSelect /\ ctl'.at = "exit")
    /\ SF_vars(WrkProbe /\ wrk'.at = "exit")

\* ------------------------------------- one peer manager and its channels
MaxPmIds == 2
MaxPmTasks == 2
MaxPmCalls == 3
\* ps.conf.NPMaxPeers
NPMaxPeers == 1
\* make(chan PeerMeta, 2)
AddPeerChannelCap == 2

PmIds == 1..MaxPmIds
PmTasks == 1..MaxPmTasks
\* the ids of ps.designatedPeers
pmDesignated == {1}

PmLoopAt(at) ==
    [at |-> at, id |-> 0, from |-> "", todo |-> <<>>, remained |-> 0,
     entryLen |-> 0, left |-> {}]

SendIdle == [at |-> "idle", arg |-> 0]

\* Start() has returned: the manager loop is in its select, the listener
\* accepts streams, nothing is registered
InitManager ==
    /\ EngineIdle
    /\ NetIdle
    /\ NoticeIdle
    /\ ReconnIdle
    /\ SchedIdle
    /\ FactoryIdle
    /\ pmPeers = {}
    /\ pmPool = {}
    /\ pmChan = [add |-> <<>>, addClosed |-> FALSE, rmClosed |-> FALSE]
    /\ pmLoop = PmLoopAt("select")
    /\ pmStop = "idle"
    /\ pmSend = [t \in PmTasks |-> SendIdle]
    /\ pmLog = [jobs |-> {}, stopped |-> {}, goAway |-> {}, calls |-> 0]

PmFrame ==
    UNCHANGED <<engineVars, callerVars, concVars, p2pVars, schedVars, bfVars>>

\* a task (a reconnect job, a per-peer task, the starter of the designated
\* peers, a hub actor) enters AddNewPeer, RemovePeer or
\* NotifyPeerAddressReceived: it is about to send on the channel
PmCall(t, kind, arg) ==
    /\ pmSend[t].at = "idle"
    /\ pmLog.calls < MaxPmCalls
    /\ pmSend' = [pmSend EXCEPT ![t] = [at |-> kind, arg |-> arg]]
    /\ pmLog' = [pmLog EXCEPT !.calls = @ + 1]
    /\ UNCHANGED <<pmPeers, pmPool, pmChan, pmLoop, pmStop>>
    /\ PmFrame

\* ps.addPeerChannel <- peer: the send completes while the buffer has room
SendAdd(t) ==
    /\ pmSend[t].at = "add"
    /\ ~pmChan.addClosed
    /\ Len(pmChan.add) < AddPeerChannelCap
    /\ pmChan' = [pmChan EXCEPT !.add = Append(@, pmSend[t].arg)]
    /\ pmSend' = [pmSend EXCEPT ![t] = SendIdle]
    /\ UNCHANGED <<pmPeers, pmPool, pmLoop, pmStop, pmLog>>
    /\ PmFrame

\* a send on a channel that Stop has closed, begun before or after the
\* close, panics
SendOnClosed(t) ==
    /\ \/ pmSend[t].at = "add" /\ pmChan.addClosed
       \/ pmSend[t].at = "remove" /\ pmChan.rmClosed
    /\ pmSend' = [pmSend EXCEPT ![t].at = "panic"]
    /\ UNCHANGED <<pmPeers, pmPool, pmChan, pmLoop, pmStop, pmLog>>
    /\ PmFrame

\* the calls on ps.rm after addOutboundPeer returned added for id
CancelAfterAdd(js, id, added) ==
    IF added /\ id \in pmDesignated THEN js \ {id} ELSE js

\* addOutboundPeer(meta) returns added to its caller: the loop's add case
\* (lines 311-315) or tryConnectPeers (lines 659-663)
AddReturn(added) ==
    IF pmLoop.from = "add"
    THEN /\ pmLoop' = PmLoopAt("select")
         /\ pmLog' = [pmLog EXCEPT !.jobs = CancelAfterAdd(@, pmLoop.id, added)]
    ELSE /\ pmLoop' = IF pmLoop.remained - 1 <= 0
                      THEN PmLoopAt("select")
                      ELSE [pmLoop EXCEPT !.at = "fill", !.id = 0,
                                          !.remained = @ - 1]
         /\ UNCHANGED pmLog

\* case meta := <-ps.addPeerChannel: addOutboundPeer up to NewStream
LoopAdd ==
    /\ pmLoop.at = "select"
    /\ pmChan.add # <<>>
    /\ pmChan' = [pmChan EXCEPT !.add = Tail(@)]
    /\ LET id == Head(pmChan.add)
       IN  IF id \in pmPeers
           THEN /\ pmLog' = [pmLog EXCEPT !.jobs = CancelAfterAdd(@, id, TRUE)]
                /\ UNCHANGED pmLoop
           ELSE /\ pmLoop' = [PmLoopAt("dial") EXCEPT !.id = id, !.from = "add"]
                /\ UNCHANGED pmLog
    /\ UNCHANGED <<pmPeers, pmPool, pmStop, pmSend>>
    /\ PmFrame

\* ps.NewStream returns (line 370): with an error addOutboundPeer returns
\* false, otherwise doHandshake begins
DialResult(ok) ==
    /\ pmLoop.at = "dial"
    /\ IF ok
       THEN /\ pmLoop' = [pmLoop EXCEPT !.at = "handshake"]
            /\ UNCHANGED pmLog
       ELSE AddReturn(FALSE)
    /\ UNCHANGED <<pmPeers, pmPool, pmChan, pmStop, pmSend>>
    /\ PmFrame

\* doHandshake returns (line 377): on failure GoAway is sent and the stream
\* closed; on success the peer is registered, unless one was registered
\* meanwhile and this node yields
HandshakeResult(ok) ==
    /\ pmLoop.at = "handshake"
    /\ IF ok
       THEN /\ pmPeers' = pmPeers \cup {pmLoop.id}
            /\ AddReturn(TRUE)
       ELSE /\ pmLoop' = IF pmLoop.from = "add" THEN PmLoopAt("select")
                         ELSE IF pmLoop.remained - 1 <= 0
                         THEN PmLoopAt("select")
                         ELSE [pmLoop EXCEPT !.at = "fill", !.id = 0,
                                             !.remained = @ - 1]
            /\ pmLog' = [pmLog EXCEPT !.goAway = @ \cup {pmLoop.id}]
            /\ UNCHANGED pmPeers
    /\ UNCHANGED <<pmPool, pmChan, pmStop, pmSend>>
    /\ PmFrame

\* removePeer(id): delete and stop the peer if it is registered
removePeer(peers, lg, id) ==
    IF id \in peers
    THEN [peers |-> peers \ {id},
          log |-> [lg EXCEPT !.stopped = @ \cup {id}], removed |-> TRUE]
    ELSE [peers |-> peers, log |-> lg, removed |-> FALSE]

\* case id := <-ps.removePeerChannel, from the task t that is sending
LoopRemove(t) ==
    /\ pmLoop.at = "select"
    /\ pmSend[t].at = "remove"
    /\ ~pmChan.rmClosed
    /\ LET id == pmSend[t].arg
           r == removePeer(pmPeers, pmLog, id)
       IN  /\ pmPeers' = r.peers
           /\ pmLog' = IF r.removed /\ id \in pmDesignated
                       THEN [r.log EXCEPT !.jobs = @ \cup {id}]
                       ELSE r.log
    /\ pmSend' = [pmSend EXCEPT ![t] = SendIdle]
    /\ UNCHANGED <<pmPool, pmChan, pmLoop, pmStop>>
    /\ PmFrame

\* case peerMetas := <-ps.fillPoolChannel: tryFillPool, and tryConnectPeers
\* up to its range over the pool
LoopFill(t) ==
    /\ pmLoop.at = "select"
    /\ pmSend[t].at = "fill"
    /\ pmPool' = pmPool \cup pmSend[t].arg
    /\ \E order \in Orders(pmPool \cup pmSend[t].arg) :
        pmLoop' = [PmLoopAt("fill") EXCEPT
                      !.from = "fill", !.todo = order,
                      !.remained = NPMaxPeers - Cardinality(pmPeers),
                      !.entryLen = Cardinality(pmPeers)]
    /\ pmSend' = [pmSend EXCEPT ![t] = SendIdle]
    /\ UNCHANGED <<pmPeers, pmChan, pmStop, pmLog>>
    /\ PmFrame

\* one iteration of the range of tryConnectPeers, up to NewStream, and the
\* return after the last
FillStep ==
    /\ pmLoop.at = "fill"
    /\ IF pmLoop.todo = <<>>
       THEN /\ pmLoop' = PmLoopAt("select")
            /\ UNCHANGED pmPool
       ELSE LET id == Head(pmLoop.todo)
            IN  IF id \in pmPeers
                THEN /\ pmPool' = pmPool \ {id}
                     /\ pmLoop' = [pmLoop EXCEPT !.todo = Tail(@)]
                ELSE /\ pmLoop' = [pmLoop EXCEPT !.at = "dial", !.id = id,
                                                 !.todo = Tail(@)]
                     /\ UNCHANGED pmPool
    /\ UNCHANGED <<pmPeers, pmChan, pmStop, pmSend, pmLog>>
    /\ PmFrame

\* Stop(): close(ps.addPeerChannel)
StopCall ==
    /\ pmStop = "idle"
    /\ pmStop' = "closeRemove"
    /\ pmChan' = [pmChan EXCEPT !.addClosed = TRUE]
    /\ UNCHANGED <<pmPeers, pmPool, pmLoop, pmSend, pmLog>>
    /\ PmFrame

\* Stop(): close(ps.removePeerChannel); the send on finishChannel is next
StopCloseRemove ==
    /\ pmStop = "closeRemove"
    /\ pmStop' = "finish"
    /\ pmChan' = [pmChan EXCEPT !.rmClosed = TRUE]
    /\ UNCHANGED <<pmPeers, pmPool, pmLoop, pmSend, pmLog>>
    /\ PmFrame

\* case <-ps.finishChannel: Stop returns and the loop goes on to its cleanup
LoopFinish ==
    /\ pmLoop.at = "select"
    /\ pmStop = "finish"
    /\ pmStop' = "returned"
    /\ pmLoop' = [PmLoopAt("cleanup") EXCEPT !.left = pmPeers]
    /\ UNCHANGED <<pmPeers, pmPool, pmChan, pmSend, pmLog>>
    /\ PmFrame

\* one iteration of the range over ps.remotePeers after the loop, and the
\* return of runManagePeers after the last
CleanupStep ==
    /\ pmLoop.at = "cleanup"
    /\ IF pmLoop.left = {}
       THEN /\ pmLoop' = PmLoopAt("exit")
            /\ UNCHANGED <<pmPeers, pmLog>>
       ELSE \E id \in pmLoop.left :
              LET r == removePeer(pmPeers, pmLog, id)
              IN  /\ pmPeers' = r.peers
                  /\ pmLog' = r.log
                  /\ pmLoop' = [pmLoop EXCEPT !.left = @ \ {id}]
    /\ UNCHANGED <<pmPool, pmChan, pmStop, pmSend>>
    /\ PmFrame

\* the stream handler, on its own task, registers the peer of an inbound
\* stream (tryAddInboundPeer); Stop does not remove the handler.  An insert
\* during the range of the cleanup is a write to a map that is being ranged
\* over without the lock: the range may yield the new key or miss it, or the
\* runtime stops the process
Inbound(id) ==
    /\ id \notin pmPeers
    /\ pmPeers' = pmPeers \cup {id}
    /\ IF pmLoop.at = "cleanup"
       THEN \E outcome \in {"yielded", "missed", "fault"} :
              pmLoop' = IF outcome = "yielded"
                        THEN [pmLoop EXCEPT !.left = @ \cup {id}]
                        ELSE IF outcome = "missed" THEN pmLoop
                        ELSE PmLoopAt("fault")
       ELSE UNCHANGED pmLoop
    /\ UNCHANGED <<pmPool, pmChan, pmStop, pmSend, pmLog>>
    /\ PmFrame

OpPmCall ==
    \E t \in PmTasks :
        \/ \E id \in PmIds : PmCall(t, "add", id) \/ PmCall(t, "remove", id)
        \/ \E ids \in (SUBSET PmIds) \ {{}} : PmCall(t, "fill", ids)
OpSendAdd == \E t \in PmTasks : SendAdd(t)
OpSendOnClosed == \E t \in PmTasks : SendOnClosed(t)
OpDialResult == \E ok \in BOOLEAN : DialResult(ok)
OpHandshakeResult == \E ok \in BOOLEAN : HandshakeResult(ok)
OpLoopRemove == \E t \in PmTasks : LoopRemove(t)
OpLoopFill == \E t \in PmTasks : LoopFill(t)
OpInbound == \E id \in PmIds : Inbound(id)

\* the steps of runManagePeers
NextLoop ==
    \/ LoopAdd
    \/ OpLoopRemove
    \/ OpLoopFill
    \/ FillStep
    \/ LoopFinish
    \/ CleanupStep

NextManager ==
    \/ OpPmCall
    \/ OpSendAdd
    \/ OpSendOnClosed
    \/ OpDialResult
    \/ OpHandshakeResult
    \/ StopCall
    \/ StopCloseRemove
    \/ OpInbound
    \/ NextLoop

SpecManager == InitManager /\ [][NextManager]_vars

\* ------------------------------------------------------------ properties
\* the engine's accounts by value: None for a nil pointer
AccountsView == [a \in DOMAIN accounts |-> ValOf(heap, accounts[a])]

\* the pending block state by value
BsView == IF bs = None THEN None ELSE Some(Serialize(heap, bs[1]))

\* what GetAccountStateClone(aid) on engine st gives its caller: the result
\* and the value of the object returned
CloneOutcome(st, aid) ==
    LET r == GetAccountStateClone(st, aid)
    IN  [res |-> r.res, val |-> ValOf(r.st.heap, r.ptr)]

\* the same for GetBlockAccountClone(b, aid)
BlockCloneOutcome(st, b, aid) ==
    LET r == GetBlockAccountClone(st, b, aid)
    IN  [res |-> r.res, val |-> ValOf(r.st.heap, r.ptr)]

\* the order in which the maps of a second engine are ranged over
ReplayPerm == [i \in 1..MaxAccountID |-> MaxAccountID + 1 - i]

\* the trie root of a fresh engine that has applied the block states of ch
RECURSIVE FreshRoot(_)
FreshRoot(ch) ==
    IF Len(ch) = 0 THEN EmptyTrie
    ELSE updateTrie(FreshRoot(SubSeq(ch, 1, Len(ch) - 1)), ch[Len(ch)].accounts,
                    FALSE, ReplayPerm, FALSE).root

\* the state of aid in an engine that has applied the block states of ch
StateAfter(ch, aid) ==
    LET hit == {i \in DOMAIN ch : aid \in DOMAIN ch[i].accounts}
    IN  IF hit = {} THEN NewState
        ELSE ch[CHOOSE i \in hit : \A j \in hit : j <= i].accounts[aid].State[1]

\* the BlockInfo of the block applied at height t
InfoAt(ch, t) == IF t = 0 THEN GenesisInfo ELSE BlockInfoOf(ch[t])

\* the accounts the blocks above height t of ch touch
TouchedAbove(ch, t) == UNION {DOMAIN ch[i].accounts : i \in (t + 1)..Len(ch)}

\* the engine as SetGenesis leaves it: no account holds a state but the
\* empty one and the trie has no leaf
GenesisSnapshot ==
    /\ latest = Some(GenesisInfo)
    /\ root = EmptyTrie
    /\ \A a \in DOMAIN accounts : AccountsView[a] = Some(NewState)

\* C1: after successful Apply(b1..bn) on an engine after SetGenesis, a
\* successful Rollback(k), 0 <= k < n, leaves as GetHash() the root a fresh
\* engine has after applying only b1..bk, also when a rolled-back block
\* created an account.
C1_RollbackRestoresRoot ==
    [][(OpRollback /\ clean /\ last'.res = "nil")
        => GetHashRoot(Engine') = FreshRoot(chain')]_vars

\* C2: after Apply(b1..bn) and a successful Rollback(k), GetAccountStateClone
\* returns, without error or fault, for every account touched by b(k+1)..bn
\* the state it had after bk: the empty state for an account that a
\* rolled-back block created.
C2_CloneAfterRollback ==
    [][(OpRollback /\ clean /\ last'.res = "nil")
        => \A aid \in TouchedAbove(chain, Len(chain')) :
              CloneOutcome(Engine', aid) =
                  [res |-> "ok", val |-> Some(StateAfter(chain', aid))]]_vars

\* C3: a successful Rollback(t) from latest height n > t leaves latest at the
\* BlockInfo of the block applied at height t, has inverted the deltas of
\* exactly the blocks n, n-1, .., t+1, once each and in that order, and
\* Rollback(0) leaves the genesis snapshot.
C3_RollbackKeepsTarget ==
    [][(OpRollback /\ clean /\ last'.res = "nil")
        => LET t == last'.target
               n == latest[1].BlockNo
           IN  /\ latest' = Some(InfoAt(chain, t))
               /\ last'.undone = [i \in 1..(n - t) |-> n + 1 - i]
               /\ (t = 0 => GenesisSnapshot')]_vars

\* C4: after a successful Apply(bs), GetAccountStateClone(aid) returns for
\* every aid of bs a value equal to the post state bs holds for aid, and
\* latest is the BlockInfo of bs.
C4_ApplyInstallsPost ==
    (last.op = "Apply" /\ last.res = "nil")
        => LET b == chain[Len(chain)]
           IN  /\ latest = Some(BlockInfoOf(b))
               /\ \A aid \in DOMAIN b.accounts :
                    CloneOutcome(Engine, aid) =
                        [res |-> "ok", val |-> b.accounts[aid].State]

C4_Witness ==
    /\ last.op = "Apply"
    /\ last.res = "nil"
    /\ DOMAIN chain[Len(chain)].accounts = CallerAccountIDs
    /\ \E aid \in CallerAccountIDs :
        ~IsEmpty(chain[Len(chain)].accounts[aid].State[1])

\* C5: Apply(bs) with bs.no # latest.no + 1 or bs.prevHash # latest.hash
\* returns an error and leaves the accounts map, the trie root, latest and
\* the persisted block-state log as they were.
C5_ApplyMismatchUnchanged ==
    [][(OpApply /\ (bs[1].BlockNo # latest[1].BlockNo + 1
                    \/ bs[1].PrevHash # latest[1].BlockHash))
        => /\ last'.res = "mismatch"
           /\ AccountsView' = AccountsView
           /\ GetHashRoot(Engine') = GetHashRoot(Engine)
           /\ latest' = latest
           /\ log' = log]_vars

\* an Apply was refused for its prevHash alone, on a block state with an entry
C5_Witness ==
    /\ last.op = "Apply"
    /\ last.res = "mismatch"
    /\ bs[1].BlockNo = latest[1].BlockNo + 1
    /\ bs[1].PrevHash # latest[1].BlockHash
    /\ DOMAIN bs[1].accounts # {}

\* C6: Apply is all-or-nothing: when a step of Apply fails (persisting the
\* block state, the trie update, the metadata flush) the call returns the
\* error and the block-state log, the accounts map, the trie root and latest
\* are as before the call; otherwise all four are updated.
C6_ApplyAllOrNothing ==
    [][OpApplyFault
        => IF last'.res # "nil"
           THEN /\ log' = log
                /\ AccountsView' = AccountsView
                /\ root' = root
                /\ latest' = latest
           ELSE /\ bs[1].BlockHash \in DOMAIN log'
                /\ log'[bs[1].BlockHash] = Serialize(heap, bs[1])
                /\ \A aid \in DOMAIN bs[1].accounts :
                    /\ AccountsView'[aid] = BsView[1].accounts[aid].State
                    /\ root'[aid] = GetHash(BsView[1].accounts[aid].State)
                /\ latest' = Some(BlockInfoOf(bs[1]))]_vars

\* a trie leaf and an account, with "no leaf" and "no state" read as the
\* empty state
LeafOrEmpty(r, k) == IF r[k] = DefaultLeaf THEN Hash(NewState) ELSE r[k]

ValueOrEmpty(view, aid) ==
    IF aid \in DOMAIN view /\ view[aid] # None THEN view[aid][1] ELSE NewState

\* the engine holds the snapshot of height latest.no of ch
SnapshotAtLatest(ch) ==
    LET h == latest[1].BlockNo
        upto == SubSeq(ch, 1, h)
    IN  /\ h <= Len(ch)
        /\ latest = Some(InfoAt(ch, h))
        /\ \A k \in TrieKeys : LeafOrEmpty(root, k) = LeafOrEmpty(FreshRoot(upto), k)
        /\ \A aid \in TouchedAbove(ch, 0) :
            ValueOrEmpty(AccountsView, aid) = StateAfter(upto, aid)

\* C7: Rollback(targetNo) with targetNo >= latest.no returns an error and
\* changes nothing (accounts, trie root, latest); and a Rollback that fails
\* part-way (a block state cannot be loaded, or the trie revert fails) leaves
\* latest at a block whose snapshot the accounts and the trie hold.
C7_RollbackFailsCleanly ==
    [][(OpRollbackFault /\ clean)
        => /\ (last'.target >= latest[1].BlockNo
                => /\ last'.res = "invalid"
                   /\ AccountsView' = AccountsView
                   /\ root' = root
                   /\ latest' = latest)
           /\ (last'.res \in {"load", "trie"} => SnapshotAtLatest(chain)')]_vars

\* C8: an engine that has applied a sequence of block states, ranging over
\* each block's account map in any order, has the root of a second engine
\* that applied the same sequence from the same genesis in its own order.
C8_RootDeterministic ==
    (clean /\ latest # None) => GetHashRoot(Engine) = FreshRoot(chain)

C8_Witness ==
    /\ clean
    /\ last.op = "Apply"
    /\ Len(chain) = MaxHeight
    /\ \A i \in DOMAIN chain : DOMAIN chain[i].accounts = CallerAccountIDs
    /\ \E k \in TrieKeys : root[k] # Hash(NewState) /\ root[k] # DefaultLeaf

\* C9: after any sequence of PutAccount calls for aid on a block state, the
\* entry's pre is the pre of the first call (nil for an empty one) and its
\* post is the post of the last call: a later call replaces the post only.
C9_PutAccountKeepsFirstPre ==
    bs # None
        => /\ DOMAIN bs[1].accounts = DOMAIN puts
           /\ \A aid \in DOMAIN puts :
                /\ BsView[1].accounts[aid].State = Some(puts[aid].lastPost)
                /\ BsView[1].accounts[aid].Undo =
                     IF IsEmpty(puts[aid].firstPre) THEN None
                     ELSE Some(puts[aid].firstPre)

\* PutAccount was called again for an account whose first pre was not empty
\* and whose last post is another state
C9_Witness ==
    /\ bs # None
    /\ \E aid \in DOMAIN puts :
        /\ puts[aid].again
        /\ ~IsEmpty(puts[aid].firstPre)
        /\ puts[aid].lastPost # puts[aid].firstPre

\* the pointers the engine and the pending block state hold
EnginePtrs ==
    {accounts[a] : a \in DOMAIN accounts}
        \cup (IF bs = None THEN {}
              ELSE {bs[1].accounts[a].State : a \in DOMAIN bs[1].accounts}
                     \cup {bs[1].accounts[a].Undo : a \in DOMAIN bs[1].accounts})

\* C10: a write to a state that GetAccountStateClone or GetBlockAccountClone
\* returned changes neither the engine's accounts, nor a pending block
\* state, nor what a later clone call returns; and GetBlockAccountClone
\* returns a copy of bs's post state for aid when bs has aid, of the
\* engine's state otherwise.
C10_NoAliasing ==
    [][/\ OpMutate
          => /\ AccountsView' = AccountsView
             /\ BsView' = BsView
             /\ \A aid \in CallerAccountIDs :
                  /\ CloneOutcome(Engine', aid) = CloneOutcome(Engine, aid)
                  /\ bs # None =>
                       BlockCloneOutcome(Engine', bs'[1], aid) =
                           BlockCloneOutcome(Engine, bs[1], aid)
       /\ \A aid \in CallerAccountIDs :
            GetBlockAccountCloneKeep(aid)
                => /\ heap'[held'] = BlockAccountVal(aid)
                   /\ held' \notin EnginePtrs']_vars

\* C11: Apply and Rollback are serialized as whole calls, checks included:
\* whenever an Apply commits bs, bs.no = latest.no + 1 and bs.prevHash =
\* latest.hash at that moment, and two concurrent Apply calls for the same
\* height never both commit.
C11_ApplySerialized ==
    [][\A t \in Appliers :
        ApplyCommit(t)
            => /\ ~ApplyRejects(latest[1], job[t])
               /\ \A u \in Appliers \ {t} :
                    ret[u] = "nil" => job[u].BlockNo # job[t].BlockNo]_vars

\* C12: a GetAccountStateClone or GetHash that runs concurrently with an
\* Apply or Rollback runs under the engine lock, that is, never between the
\* Lock and the Unlock of an Apply or Rollback, and so sees the accounts and
\* the root of before or of after it; and a read does not change the accounts
\* map outside the lock.
C12_NoTornReads ==
    [][\A t \in Readers :
        (ReadAccount(t) \/ ReadHash(t))
            => /\ lockedBy = 0
               /\ accounts' = accounts]_vars

\* the RemotePeer objects of node n for peer id that have not been stopped
LivePeers(n, id) ==
    {o \in DOMAIN rpeers :
        rpeers[o].owner = n /\ rpeers[o].id = id /\ rpeers[o].state = RUNNING}

\* C13: in a peer manager at most one live RemotePeer object exists per peer
\* identity at any moment (an object that is replaced in remotePeers has been
\* stopped), and no object in remotePeers is being torn down.
C13_OneLivePeer ==
    /\ \A n \in Nodes, id \in Nodes : Cardinality(LivePeers(n, id)) <= 1
    /\ \A n \in Nodes : \A id \in DOMAIN remotePeers[n] :
         rpeers[remotePeers[n][id]].state = RUNNING

\* nodes P < Q have dialled each other at the same time, both handshakes
\* succeeded, both inbound registrations are done, nothing was removed
SimultaneousDialDone(P, Q) ==
    /\ P < Q
    /\ Len(streams) = 2
    /\ {<<streams[s].from, streams[s].to>> : s \in 1..2} = {<<P, Q>>, <<Q, P>>}
    /\ \A s \in 1..2 : streams[s].accepted /\ streams[s].hs = "ok"
    /\ \A o \in DOMAIN rpeers : rpeers[o].state = RUNNING

StreamFrom(n) == CHOOSE s \in DOMAIN streams : streams[s].from = n

\* C14: after a simultaneous dial of P (lower id) and Q (higher id), under
\* every interleaving, each side has one RemotePeer registered for the other,
\* both on the stream that Q dialled and P accepted, and the stream that P
\* dialled is closed on both sides.
C14_SimultaneousDial ==
    \A P, Q \in Nodes :
        SimultaneousDialDone(P, Q)
            => /\ Q \in DOMAIN remotePeers[P]
               /\ P \in DOMAIN remotePeers[Q]
               /\ rpeers[remotePeers[P][Q]].stream = StreamFrom(Q)
               /\ rpeers[remotePeers[Q][P]].stream = StreamFrom(Q)
               /\ streams[StreamFrom(P)].closed = {P, Q}

\* how many times x occurs in sequence q
Occurrences(q, x) == Cardinality({i \in DOMAIN q : q[i] = x})

\* C15: in every reachable state of a peer manager the peers in remotePeers
\* have pairwise distinct ids, each equal to its map key, and peerCache holds
\* exactly the values of remotePeers, each exactly once.
C15_CacheMatchesMap ==
    \A n \in Nodes :
        LET m == remotePeers[n]
        IN  /\ \A k \in DOMAIN m : rpeers[m[k]].id = k
            /\ \A j, k \in DOMAIN m : j # k => rpeers[m[j]].id # rpeers[m[k]].id
            /\ \A o \in DOMAIN rpeers :
                 Occurrences(peerCache[n], o)
                    = Cardinality({k \in DOMAIN m : m[k] = o})
            /\ \A o \in DOMAIN rpeers : Occurrences(peerCache[n], o) <= 1

\* a manager holds two peers after an object of some manager was replaced or
\* removed
C15_Witness ==
    /\ \E n \in Nodes : Cardinality(DOMAIN remotePeers[n]) = 2
    /\ \E o \in DOMAIN rpeers :
         \/ rpeers[o].id \notin DOMAIN remotePeers[rpeers[o].owner]
         \/ remotePeers[rpeers[o].owner][rpeers[o].id] # o

\* C17: a pass of the manager loop that removes a registered designated peer
\* calls AddJob for it exactly once; a removal request for an id that is not
\* in remotePeers, or for a peer that is not designated, calls AddJob not at
\* all and leaves the jobs as they are.
C17_RemovalEnqueuesJob ==
    [][\A n \in Nodes : \A id \in Nodes \ {n} :
        RemoveLoop(n, id)
            => IF id \in DOMAIN remotePeers[n] /\ id \in designatedPeers[n]
               THEN /\ loopLast' = <<[call |-> "AddJob", node |-> n, id |-> id]>>
                    /\ id \in jobs'[n]
               ELSE /\ loopLast' = <<>>
                    /\ jobs' = jobs]_vars

\* a registered designated peer has just been removed
C17_Witness ==
    /\ loopLast # <<>>
    /\ loopLast[1].call = "AddJob"
    /\ loopLast[1].id \notin DOMAIN remotePeers[loopLast[1].node]
    /\ \E o \in DOMAIN rpeers :
         /\ rpeers[o].owner = loopLast[1].node
         /\ rpeers[o].id = loopLast[1].id
         /\ rpeers[o].state = STOPPING

\* C18: NotifyNewBlock and NotifyNewTX give a notice to sendMessage only for
\* a peer whose state is RUNNING at that time.
C18_OnlyRunning == \A m \in sent : m.state = RUNNING

\* C16: a HandleNewBlockNotice call whose hash is in the cache returns without
\* any request (no GetBlock, no GetBlockInfos); a call whose hash is not in
\* the cache puts it there and issues exactly one GetBlock: of two calls with
\* the same hash while it stays cached, sequential or concurrent, only the
\* first asks the chain service.
C16_NoticeDedup ==
    [][/\ \A t \in NoticePeers, h \in BlockHashes :
            NoticeCheck(t, h)
                => /\ reqs' = reqs
                   /\ \E i \in DOMAIN invCache' : invCache'[i] = h
                   /\ IF \E i \in DOMAIN invCache : invCache[i] = h
                      THEN ntask'[t].at = "idle"
                      ELSE ntask'[t].at = "call"
       /\ \A t \in NoticePeers, answer \in {"found", "notfound", "error", "badtype"} :
            NoticeCall(t, answer)
                => /\ ntask'[t].at = "idle"
                   /\ SelectSeq(reqs', LAMBDA q : q.kind = "GetBlock")
                        = Append(SelectSeq(reqs, LAMBDA q : q.kind = "GetBlock"),
                                 GetBlock(ntask[t].hash))]_vars

\* peer 2 delivered the hash that the call of peer 1 had just put into the
\* cache, while that call was still asking the chain service
C16_Witness ==
    /\ ntask[1].at = "call"
    /\ ntask[2] = [at |-> "idle", hash |-> ntask[1].hash, last |-> "hit"]
    /\ reqs = <<>>

Count(q, x) == Cardinality({i \in DOMAIN q : q[i] = x})

\* the calls of the job alternate, GetPeer first; a job that ended because
\* the peer was present made k + 1 lookups and k adds; the lookup that
\* reports the peer present ends the job
C19_Calls ==
    /\ \A i \in DOMAIN calls :
         calls[i] = IF i % 2 = 1 THEN "GetPeer" ELSE "AddNewPeer"
    /\ runner.exit = "present"
         => /\ Count(calls, "GetPeer") = runner.k + 1
            /\ Count(calls, "AddNewPeer") = runner.k
    /\ (runner.k # Forever /\ Count(calls, "GetPeer") = runner.k + 1)
         => runner.at = "done"

\* C19: the run of a reconnect job for a peer that GetPeer reports absent k
\* times and then present makes exactly k AddNewPeer and k + 1 GetPeer calls,
\* alternating lookup then add, and then terminates.
C19_ReconnectRun ==
    /\ []C19_Calls
    /\ (runner.k # Forever) ~> (runner.at = "done")

\* the job of the test ended: absent twice, then present
C19_Witness ==
    /\ runner.k = 2
    /\ runner.exit = "present"
    /\ calls = <<"GetPeer", "AddNewPeer", "GetPeer", "AddNewPeer", "GetPeer">>

\* C20: a running reconnect job whose peer never becomes present terminates
\* once CancelJob was called, without the sleep having to elapse, and makes no
\* GetPeer or AddNewPeer call after it has observed the cancellation.
C20_CancelEndsJob ==
    /\ [][runner.exit = "cancelled" => calls' = calls]_vars
    /\ [](runner.exit = "cancelled" => runner.at = "done")
    /\ runner.cancel ~> (runner.at = "done")

\* the job of a peer that is never present was cancelled in its sleep, after
\* more trials than the schedule has intervals
C20_Witness ==
    /\ runner.k = Forever
    /\ runner.exit = "cancelled"
    /\ runner.timer > 0
    /\ runner.trial > maxTrial

\* C21: generateExpDuration(initial, inc, n) with initial >= 1 and inc > 0
\* returns exactly n durations, each greater than the one before it, so the
\* last one is positive.
C21_ScheduleIncreases ==
    sched.done
        => /\ Len(sched.got) = sched.count
           /\ \A i \in 1..(Len(sched.got) - 1) :
                DurLess(sched.got[i], sched.got[i + 1])
           /\ sched.count > 0
                => DurLess(<<0, 1>>, sched.got[Len(sched.got)])

\* a schedule of the greatest length with an increment below one
C21_Witness ==
    /\ sched.done
    /\ sched.count = MaxCount
    /\ sched.inc.num < sched.inc.den
    /\ Len(sched.got) = MaxCount

\* the worker is still including transactions for job j
Assembling(j) == wrk.at = "assemble" /\ wrk.job = j

\* C22: when the timeout of the job the worker is assembling has elapsed and
\* its signal is on bpTimeoutC, the worker's probe observes it on its next
\* check and the partial block is sealed; the signal is never consumed by the
\* controller's drain for a later job while the worker still assembles.
C22_TimeoutReachesWorker ==
    [][/\ (OpCtlBegin /\ bpTimeoutC # <<>> /\ bpTimeoutC' = <<>>)
            => ~Assembling(bpTimeoutC[1])
       /\ (WrkProbe /\ bpTimeoutC # <<>> /\ ~quit)
            => wrk'.at = "seal"]_vars

\* C23: controller and worker never deadlock while quit is not signalled:
\* bpTimeoutC is empty whenever the controller is about to send on it, both
\* tasks come back to their select after each job, and every submitted job is
\* eventually handed to the worker or skipped.
C23_NoDeadlock ==
    /\ [](ctl.at = "send" => bpTimeoutC = <<>>)
    /\ \A j \in Jobs :
         (bfLog.submitted >= j) ~> (quit \/ bfLog.fate[j] # "")
    /\ (ctl.at \in {"begin", "handoff", "sleep", "send"})
         ~> (ctl.at \in {"select", "parked", "exit"})
    /\ (wrk.at \in {"assemble", "seal"})
         ~> (wrk.at \in {"select", "parked", "exit"})

\* a job was skipped because the worker was busy, and the job submitted
\* after it was handed to the worker
C23_Witness ==
    /\ ~quit
    /\ bfLog.fate = <<"handed", "skipped", "handed">>
    /\ Len(bfLog.blocks) = 1

\* C24: once quit is signalled both tasks terminate from wherever they are;
\* the timeout probe returns the quit sentinel, the worker connects no block,
\* and neither task takes a further job.
C24_QuitStopsBoth ==
    /\ quit ~> (ctl.at = "exit" /\ wrk.at = "exit")
    /\ [][quit => /\ WrkProbe => wrk'.at = "exit"
                  /\ ~WrkConnect
                  /\ ~(CtlSelect /\ ctl'.at = "begin")
                  /\ ~(OpCtlHandoff /\ wrk.at = "parked")]_vars

\* the authenticated map that holds exactly the pairs (aid, state hash) of
\* the accounts of acc: the leaf of an id outside acc is the default leaf
AuthenticatedRoot(h, acc) ==
    [k \in TrieKeys |->
        IF k \in DOMAIN acc THEN GetHash(ValOf(h, acc[k])) ELSE DefaultLeaf]

LazyAccount(k) ==
    /\ k \in DOMAIN accounts
    /\ accounts[k] # Nil
    /\ IsEmpty(heap[accounts[k]])
    /\ root[k] = DefaultLeaf

AbsentOrEmpty(aid) ==
    \/ aid \notin DOMAIN accounts
    \/ accounts[aid] = Nil
    \/ IsEmpty(heap[accounts[aid]])

\* the state of aid in the engine, as a caller reads it before a block
CurrentVal(aid) ==
    IF aid \in DOMAIN accounts /\ accounts[aid] # Nil
    THEN heap[accounts[aid]] ELSE NewState

\* every pre state the caller recorded in the pending block state is the
\* state the account has in the engine now
BuiltOnCurrent ==
    \A aid \in DOMAIN bs[1].accounts : puts[aid].firstPre = CurrentVal(aid)

KeysValsInOrder(t, accs, undo) ==
    /\ Len(t.keys) = Cardinality(DOMAIN accs)
    /\ {t.keys[i] : i \in DOMAIN t.keys} = DOMAIN accs
    /\ \A i \in 1..(Len(t.keys) - 1) : t.keys[i] < t.keys[i + 1]
    /\ DOMAIN t.vals = DOMAIN t.keys
    /\ \A i \in DOMAIN t.keys :
         t.vals[i] = IF undo THEN GetHash(accs[t.keys[i]].Undo)
                     ELSE GetHash(accs[t.keys[i]].State)
    /\ t.called <=> DOMAIN accs # {}
    /\ DOMAIN accs = {} => t.root = root

\* the entries of the block state persisted for the applied block of height n
AppliedEntries(n) == log[chain[n].BlockHash].accounts

\* the root after the trie reverts of the heights hs, in order
RECURSIVE RootAfterReverts(_, _, _)
RootAfterReverts(r, hs, perm) ==
    IF hs = <<>> THEN r
    ELSE RootAfterReverts(updateTrie(r, AppliedEntries(hs[1]), TRUE, perm, FALSE).root,
                          Tail(hs), perm)

\* C27: for every Apply and every Rollback step the keys given to trie.Update
\* are exactly the account ids the block touched, in strictly ascending order
\* without duplicates, and vals[i] is the hash of the post state (Apply) or
\* of the pre state (Rollback) of keys[i]; for a block that touched no
\* account trie.Update is not called and the root is unchanged.
C27_UpdateKeysSorted ==
    [][/\ (Len(chain') > Len(chain) /\ last'.res = "nil" /\ OpApply)
            => \A perm \in Perms :
                LET accs == Serialize(heap, bs[1]).accounts
                    t == updateTrie(root, accs, FALSE, perm, FALSE)
                IN  /\ KeysValsInOrder(t, accs, FALSE)
                    /\ root' = t.root
       /\ (Len(chain') < Len(chain) /\ last'.res = "nil" /\ OpRollback)
            => \A perm \in Perms :
                /\ \A i \in DOMAIN last'.undone :
                     LET accs == AppliedEntries(last'.undone[i])
                         t == updateTrie(root, accs, TRUE, perm, FALSE)
                     IN  KeysValsInOrder(t, accs, TRUE)
                /\ root' = RootAfterReverts(root, last'.undone, perm)]_vars

\* a successful rollback over two blocks, one of which touched two accounts
\* and the other none
C27_Witness ==
    /\ last.op = "Rollback"
    /\ last.res = "nil"
    /\ Len(last.undone) = 2
    /\ \E h \in DOMAIN log : Cardinality(DOMAIN log[h].accounts) = 2
    /\ \E h \in DOMAIN log : log[h].BlockNo > 0 /\ DOMAIN log[h].accounts = {}

\* C28: every successful Apply, and every Rollback step, that updates the
\* trie ends with a trie flush: trie.Commit is called after trie.Update when
\* the block touched at least one account.
C28_CommitAfterUpdate ==
    [][/\ (Len(chain') > Len(chain) /\ last'.res = "nil" /\ OpApply)
            => \A perm \in Perms :
                LET t == updateTrie(root, Serialize(heap, bs[1]).accounts,
                                    FALSE, perm, FALSE)
                IN  t.called => t.committed
       /\ (Len(chain') < Len(chain) /\ last'.res = "nil" /\ OpRollback)
            => \A perm \in Perms, i \in DOMAIN last'.undone :
                LET t == updateTrie(root, AppliedEntries(last'.undone[i]),
                                    TRUE, perm, FALSE)
                IN  t.called => t.committed]_vars

\* a step of the manager loop of some node (runManagePeers)
ManagerLoopStep == OpAddOutboundStart \/ OpAddOutboundFinish \/ OpRemoveLoop

\* C29: single-writer discipline: every insert into and delete from
\* remotePeers happens on the manager-loop task; no other task, the inbound
\* stream handler that runs tryAddInboundPeer included, changes the peer
\* table.
C29_SingleWriter ==
    [][(remotePeers' # remotePeers \/ peerCache' # peerCache)
        => ManagerLoopStep]_vars

\* node n is about to register stream s as its connection to id: with a
\* peer registered for id and n <= id it yields, with none it registers
Arbitrated(n, id, s) ==
    IF id \in DOMAIN remotePeers[n]
    THEN n <= id
            => /\ n \in streams'[s].closed
               /\ rpeers' = rpeers
               /\ remotePeers' = remotePeers
               /\ peerCache' = peerCache
    ELSE /\ Len(rpeers') = Len(rpeers) + 1
         /\ rpeers'[Len(rpeers')].stream = s
         /\ rpeers'[Len(rpeers')].owner = n
         /\ id \in DOMAIN remotePeers'[n]
         /\ remotePeers'[n][id] = Len(rpeers')
         /\ streams'[s].closed = streams[s].closed

\* C30: handshake arbitration: when a peer is already registered for the
\* remote id as a new connection is about to be registered (outbound after
\* its handshake, inbound before registering) and selfID <= remoteID, the
\* new stream is closed, no RemotePeer is created and the registered object
\* stays in remotePeers unchanged; when none is registered the connection is
\* registered whatever the order of the ids.
C30_Arbitration ==
    [][/\ \A n \in Nodes :
            AddOutboundFinish(n, TRUE)
                => Arbitrated(n, mgr[n].meta.ID, mgr[n].stream)
       /\ \A s \in DOMAIN streams :
            TryAddInbound(s) => Arbitrated(streams[s].to, streams[s].from, s)]_vars

\* a simultaneous connect: the node with the smaller id registered the
\* inbound stream of its peer and then closed the stream it had dialled
\* itself, whose handshake had succeeded
C30_Witness ==
    \E s, t \in DOMAIN streams :
        /\ s # t
        /\ streams[s].from < streams[s].to
        /\ streams[s].hs = "ok"
        /\ streams[s].from \in streams[s].closed
        /\ streams[t].from = streams[s].to
        /\ streams[t].to = streams[s].from
        /\ streams[t].accepted
        /\ streams[s].to \in DOMAIN remotePeers[streams[s].from]
        /\ rpeers[remotePeers[streams[s].from][streams[s].to]].stream = t

\* C31: every failed dial and every failed handshake of the outbound add
\* path results in a removal request for that id on removePeerChannel (so
\* that a designated peer gets a reconnect job even when its first attempt
\* fails), and a failed handshake is answered with a GoAway frame.
C31_FailedAddRequestsRemoval ==
    [][/\ (DialResult(FALSE) \/ HandshakeResult(FALSE))
            => \/ \E t \in PmTasks :
                    pmSend'[t] = [at |-> "remove", arg |-> pmLoop.id]
               \/ pmLoop.id \in pmLog'.jobs
       /\ HandshakeResult(FALSE) => pmLoop.id \in pmLog'.goAway]_vars

\* the loop's add case for id returned with addOutboundPeer's result added:
\* CancelJob is called exactly for a designated peer that was added, and
\* then the peer is registered and has no reconnect job
AddHandled(n, id, added) ==
    IF added /\ id \in designatedPeers[n]
    THEN /\ loopLast' = RmCall("CancelJob", n, id)
         /\ id \notin jobs'[n]
         /\ id \in DOMAIN remotePeers'[n]
    ELSE /\ loopLast' = <<>>
         /\ jobs' = jobs

\* C32: when an outbound add handled by the manager loop succeeds for a
\* designated peer, newly registered or registered already, the loop calls
\* CancelJob(id), so that no reconnect job for that connected peer remains
\* once the add is handled; a failed add cancels nothing.
C32_AddCancelsJob ==
    [][\A n \in Nodes :
        /\ \A success \in BOOLEAN :
            AddOutboundFinish(n, success) => AddHandled(n, mgr[n].meta.ID, success)
        /\ \A meta \in Metas(n) :
            (AddOutboundStart(n, meta) /\ meta.ID \in DOMAIN remotePeers[n])
                => AddHandled(n, meta.ID, TRUE)]_vars

\* a designated peer that was removed once is registered again and the add
\* that registered it cancelled its reconnect job
C32_Witness ==
    \E n \in Nodes : \E id \in designatedPeers[n] :
        /\ loopLast = RmCall("CancelJob", n, id)
        /\ id \notin jobs[n]
        /\ id \in DOMAIN remotePeers[n]
        /\ rpeers[remotePeers[n][id]].state = RUNNING
        /\ \E o \in DOMAIN rpeers :
            /\ rpeers[o].owner = n
            /\ rpeers[o].id = id
            /\ rpeers[o].state = STOPPING

\* C33: tryConnectPeers dials a pool address only while len(remotePeers) <
\* NPMaxPeers: with len(remotePeers) >= NPMaxPeers on entry it dials nothing,
\* it never dials an address whose peer is connected (that pool entry is
\* evicted), and pool filling never raises len(remotePeers) above NPMaxPeers.
C33_FillRespectsMaxPeers ==
    [][/\ (FillStep /\ pmLoop'.at = "dial")
            => /\ pmLoop.entryLen < NPMaxPeers
               /\ pmLoop'.id \notin pmPeers
       /\ (FillStep /\ pmLoop.todo # <<>> /\ Head(pmLoop.todo) \in pmPeers)
            => /\ pmLoop'.at = "fill"
               /\ Head(pmLoop.todo) \notin pmPool'
       /\ (HandshakeResult(TRUE) /\ pmLoop.from = "fill")
            => Cardinality(pmPeers') <= NPMaxPeers]_vars

\* C34: the manager loop suspends only on a channel receive and never waits
\* on the network: no dial and no handshake runs inside the loop, so while a
\* removal request or an address list is pending the loop is not waiting for a
\* remote node.
C34_LoopNeverWaitsOnNetwork ==
    \A t \in PmTasks :
        pmSend[t].at \in {"remove", "fill"}
            => pmLoop.at \notin {"dial", "handshake"}

\* C35: after Stop() the manager loop receives the signal on finishChannel
\* and exits, and when it exits every registered peer has been removed and
\* stopped: remotePeers is empty at the return of runManagePeers.
C35_ExitLeavesNoPeer ==
    [][(CleanupStep /\ pmLoop'.at = "exit")
          => /\ pmStop' = "returned"
             /\ pmPeers' = {}]_vars

\* C40: a call of AddNewPeer or RemovePeer that races with or follows Stop()
\* never faults: no task sends on addPeerChannel or removePeerChannel once
\* Stop has closed it.
C40_NoSendOnClosedChannel ==
    \A t \in PmTasks : pmSend[t].at # "panic"

\* the blocks the worker has connected for job j
BlocksOf(j) == {i \in 1..Len(bfLog.blocks) : bfLog.blocks[i].job = j}

C37_NoStaleTimeout ==
    [][/\ (OpCtlHandoff /\ wrk'.at = "assemble" /\ wrk.at = "parked")
            => bpTimeoutC = <<>>
       /\ (WrkProbe /\ wrk'.at = "seal")
            => /\ bpTimeoutC # <<>>
               /\ Head(bpTimeoutC) >= wrk.job]_vars

C37_Witness ==
    \E j \in Jobs :
        /\ \E i \in BlocksOf(j) : ~bfLog.blocks[i].halted
        /\ wrk.at = "assemble"
        /\ wrk.job = j + 1
        /\ wrk.left > 0
        /\ bpTimeoutC = <<>>
        /\ ctl = CtlAt("sleep", j + 1)

\* C38: a timeout signal is placed on bpTimeoutC only for a job that was
\* handed to the worker: for a job that was skipped, the slot having no time
\* left or the worker being busy, the controller neither sleeps nor signals.
C38_SignalOnlyForHandedJob ==
    [][(CtlSlept \/ CtlSend) => bfLog.fate[ctl.job] = "handed"]_vars

\* C39: every notice is sent under the protocol id of its payload: a
\* NewTransactionsNotice under the id of the new-transactions handler, a
\* NewBlockNotice under the id of the new-block handler, so the receiver's
\* handler table dispatches each notice to the handler of its payload.
C39_ProtocolMatchesPayload ==
    \A m \in sent : m.proto = handlers(m.kind)

====
